---- MODULE Spec2Model ----
(***************************************************************************)
(* A model of the tgcalendar bot (src/app): the per-chat conversation      *)
(* history of nlp_service.py, the dispatcher of telegram_bot.py, the daily *)
(* job of scheduler.py and the operations of calendar_service.py.          *)
(*                                                                         *)
(* The module holds several specifications over one set of variables:      *)
(*   SpecHist  the four history appenders and _trim_history                *)
(*   SpecCal   delete_event / edit_event against one day of the calendar   *)
(*   Spec      the chat handlers of telegram_bot.py, one update at a time  *)
(*   SpecNav   the navigation flow: navigate calls and location shares     *)
(*   SpecJob   the chat handlers beside the daily report job               *)
(*   SpecParse _safe_parse_date applied to one date string                 *)
(*   SpecOps   one operation of calendar_service.py with remote faults     *)
(* A specification leaves the variables of the other parts unchanged.      *)
(***************************************************************************)
EXTENDS Integers, Sequences, FiniteSets, TLC

\* ------------------------------------------------------------------------
\* Bounds of the model
\* ------------------------------------------------------------------------

\* number of appender calls explored by SpecHist
MaxCalls == 4

\* number of events the remote calendar holds when an operation starts
MaxEvents == 2

\* number of updates (messages, commands, location shares) and job runs
MaxUpdates == 2

\* number of updates of the navigation flow
MaxNavUpdates == 3

\* number of handler task slots of the event loop
MaxTasks == 2

\* largest day-of-month value given to _safe_parse_date
MaxDay == 32

\* the chats of the model (chat identifiers)
Chats == {1, 2}

\* ------------------------------------------------------------------------
\* State
\* ------------------------------------------------------------------------

VARIABLES
    _chat_histories,    \* nlp_service._chat_histories: chat -> list of entries
    appended,           \* ghost: chat -> every entry ever appended, in order
    nCalls,             \* ghost: number of appender calls made (SpecHist)
    calendar,           \* the events of the remote shared calendar
    tokens,             \* chat -> what its token file holds
    lastOp,             \* ghost: the last calendar operation and its result
    _event_context,     \* nlp_service: chat -> the event-context snapshot
    _last_raw_events,   \* telegram_bot._last_raw_events
    _pending_navigation,\* telegram_bot._pending_navigation
    tasks,              \* the handler tasks of the event loop, by slot
    job,                \* the daily_report_job task
    out,                \* the message sent by the last step, if any
    shown,              \* ghost: chat -> events of the last listing sent to it
    lastResolved,       \* ghost: chat -> destination a navigate stored last
    consumed,           \* ghost: chat -> a share took the request stored last
    nUpdates,           \* number of updates and job runs started
    budget,             \* number of updates and job runs the behaviour takes
    maxActive           \* how many handler tasks may be in flight at once

histVars == <<_chat_histories, appended, nCalls>>
calVars == <<calendar, lastOp>>
botVars == <<_event_context, _last_raw_events, _pending_navigation, tasks, job,
             out, shown, lastResolved, consumed, nUpdates, budget, maxActive>>

vars == <<histVars, calVars, tokens, botVars>>

\* ------------------------------------------------------------------------
\* nlp_service.py: chat history
\* ------------------------------------------------------------------------

MAX_HISTORY == 50

\* hist[-MAX_HISTORY:]
LastN(s, n) == IF Len(s) > n THEN SubSeq(s, Len(s) - n + 1, Len(s)) ELSE s

\* _chat_histories.setdefault(chat_id, []): a chat without a key reads as []
_get_history(h, chat_id) == h[chat_id]

\* mutant of _trim_history: hist[:MAX_HISTORY], which keeps the oldest
_trim_history_keeps_oldest(h, chat_id) ==
    IF Len(h[chat_id]) > MAX_HISTORY
    THEN [h EXCEPT ![chat_id] = SubSeq(h[chat_id], 1, MAX_HISTORY)]
    ELSE h

_trim_history(h, chat_id) ==
    IF Len(h[chat_id]) > 0 /\ Len(h[chat_id]) > MAX_HISTORY
    THEN [h EXCEPT ![chat_id] = LastN(h[chat_id], MAX_HISTORY)]
    ELSE h

\* _get_history(chat_id).append(entry)
HistAppend(h, chat_id, entry) ==
    [h EXCEPT ![chat_id] = Append(_get_history(h, chat_id), entry)]

add_user_message(h, chat_id, content) ==
    _trim_history(HistAppend(h, chat_id,
        [role |-> "user", content |-> content]), chat_id)

add_assistant_tool_call(h, chat_id, tool_call_raw) ==
    _trim_history(HistAppend(h, chat_id,
        [role |-> "assistant", tool_calls |-> <<tool_call_raw>>]), chat_id)

add_tool_result_without_id(h, chat_id, tool_call_id, content) ==
    _trim_history(HistAppend(h, chat_id,
        [role |-> "tool", tool_call_id |-> 0, content |-> content]),
        chat_id)

add_tool_result(h, chat_id, tool_call_id, content) ==
    _trim_history(HistAppend(h, chat_id,
        [role |-> "tool", tool_call_id |-> tool_call_id, content |-> content]),
        chat_id)

add_assistant_message(h, chat_id, content) ==
    _trim_history(HistAppend(h, chat_id,
        [role |-> "assistant", content |-> content]), chat_id)

\* ------------------------------------------------------------------------
\* Dates, times and strings as the code handles them
\* ------------------------------------------------------------------------

\* A "YYYY-MM-DD" string is the record of its three numbers; a missing or
\* empty date (None, "") is NoDate.
Date(y, m, d) == [y |-> y, m |-> m, d |-> d]
NoDate == Date(0, 0, 0)

\* An "HH:MM" string is its two numbers and whether the hour is written
\* with two digits ("09:00" against "9:00"); a missing time is NoTime.
Time(h, m, pad) == [h |-> h, m |-> m, pad |-> pad]
NoTime == Time(-1, 0, TRUE)

\* A title is the sequence of its characters; "" is <<>>.
NoTitle == <<>>

IsLeap(y) == (y % 4 = 0 /\ y % 100 # 0) \/ y % 400 = 0

\* calendar.monthrange(year, month)[1]
monthrange(y, m) ==
    IF m = 2 THEN (IF IsLeap(y) THEN 29 ELSE 28)
    ELSE IF m \in {4, 6, 9, 11} THEN 30 ELSE 31

ValidDate(dt) ==
    /\ dt.y >= 1 /\ dt.m \in 1..12
    /\ dt.d >= 1 /\ dt.d <= monthrange(dt.y, dt.m)

ValidTime(t) == t.h \in 0..23 /\ t.m \in 0..59

\* datetime + timedelta(days=1)
NextDay(dt) ==
    IF dt.d < monthrange(dt.y, dt.m) THEN Date(dt.y, dt.m, dt.d + 1)
    ELSE IF dt.m < 12 THEN Date(dt.y, dt.m + 1, 1)
    ELSE Date(dt.y + 1, 1, 1)

\* A datetime value, and what isoformat() writes for it: the "dateTime"
\* text "YYYY-MM-DDTHH:MM:SS", of which [:10] is the date and [11:16] the
\* two-digit "HH:MM".
DateTime(dt, h, m) == [date |-> dt, h |-> h, m |-> m]

\* datetime.strptime(f"{date} {time}", "%Y-%m-%d %H:%M"): raises ValueError
\* for a day the month does not have or a time out of range.
strptime_ok(dt, t) == ValidDate(dt) /\ ValidTime(t)
strptime(dt, t) == DateTime(dt, t.h, t.m)

\* datetime + timedelta(hours=1)
PlusOneHour(x) ==
    IF x.h < 23 THEN DateTime(x.date, x.h + 1, x.m)
    ELSE DateTime(NextDay(x.date), 0, x.m)

\* {"dateTime": dt.isoformat(), "timeZone": TIMEZONE_STR}
TimedField(x) == [kind |-> "dateTime", date |-> x.date, h |-> x.h, m |-> x.m]
\* {"date": "YYYY-MM-DD"} of an all-day event
AllDayField(dt) == [kind |-> "date", date |-> dt]

\* field["dateTime"][11:16]: the "HH:MM" text of a dateTime, two digits each
Slice11_16(f) == Time(f.h, f.m, TRUE)
\* field["dateTime"][:10]
Slice0_10(f) == f.date

\* str.lower() over the alphabet of the model
LowerChar(ch) == IF ch = "A" THEN "a" ELSE IF ch = "B" THEN "b" ELSE ch
lower(s) == [i \in 1..Len(s) |-> LowerChar(s[i])]

\* Python's `a in b` for strings: a is a contiguous part of b
StrIn(a, b) ==
    \E i \in 0..(Len(b) - Len(a)) :
        \A k \in 1..Len(a) : b[i + k] = a[k]

\* ------------------------------------------------------------------------
\* calendar_service.py: events of the shared calendar
\* ------------------------------------------------------------------------

\* An event resource of the remote calendar. has_summary: untitled events
\* carry no "summary" key.
Event(id, has_summary, summary, start, end) ==
    [id |-> id, has_summary |-> has_summary, summary |-> summary,
     start |-> start, end |-> end]

\* event.get("summary", "")
GetSummary(e) == IF e.has_summary THEN e.summary ELSE <<>>

\* event.get("start", {}).get("dateTime", "")  is non-empty
HasDateTime(f) == f.kind = "dateTime"

\* minutes from 00:00 of the field's date (an all-day field starts at 0)
MinuteOfDay(f) == IF HasDateTime(f) THEN f.h * 60 + f.m ELSE 0

\* dates as (y, m, d) compare lexicographically
DateLess(a, b) ==
    \/ a.y < b.y
    \/ a.y = b.y /\ a.m < b.m
    \/ a.y = b.y /\ a.m = b.m /\ a.d < b.d

\* field a is strictly earlier than field b
FieldLess(a, b) ==
    \/ DateLess(a.date, b.date)
    \/ a.date = b.date /\ MinuteOfDay(a) < MinuteOfDay(b)

\* events().list(timeMin = date 00:00:00, timeMax = date 23:59:59,
\* singleEvents, orderBy = startTime): the events that end after timeMin
\* and start before timeMax.  An all-day event's end date is exclusive.
OnDay(e, dt) ==
    /\ \/ DateLess(e.start.date, dt)
       \/ e.start.date = dt
    /\ \/ DateLess(dt, e.end.date)
       \/ e.end.date = dt /\ HasDateTime(e.end) /\ MinuteOfDay(e.end) > 0

\* the orders in which the remote list call may return a set of events:
\* by start time, events of equal start in either order
Listings(evs) ==
    { s \in [1..Cardinality(evs) -> evs] :
        /\ \A i, j \in 1..Cardinality(evs) : i # j => s[i] # s[j]
        /\ \A i, j \in 1..Cardinality(evs) :
              i < j => ~FieldLess(s[j].start, s[i].start) }

\* _find_events_by_date(creds, date), given the order the remote chose;
\* strptime(date, "%Y-%m-%d") raises ValueError for an invalid date
_find_events_by_date_ok(dt) == ValidDate(dt)
_find_events_by_date(cal, dt) == Listings({e \in cal : OnDay(e, dt)})

\* _safe_parse_date raises for a month outside 1..12 (monthrange) and for
\* a day below 1 or a year outside 1..9999 (datetime)
_safe_parse_date_ok(dt) ==
    dt.y \in 1..9999 /\ dt.m \in 1..12 /\ dt.d >= 1

_safe_parse_date_keeps_day(dt) == dt

\* _safe_parse_date(date_str): the date with the day clamped to the
\* month's length
_safe_parse_date(dt) ==
    Date(dt.y, dt.m,
         IF dt.d < monthrange(dt.y, dt.m) THEN dt.d ELSE monthrange(dt.y, dt.m))

\* the first index of a list that passes a test, given the set of the
\* indices that pass (0: none): `for event in events: if ...: return event`
FirstIndex(passing) ==
    IF passing = {} THEN 0
    ELSE CHOOSE i \in passing : \A j \in passing : i <= j

\* title_lower in summary or summary in title_lower
TitleTest(e, title) ==
    \/ StrIn(lower(title), lower(GetSummary(e)))
    \/ StrIn(lower(GetSummary(e)), lower(title))

\* event_start and event_start[11:16] == start_time
TimeTest(e, start_time) ==
    HasDateTime(e.start) /\ Slice11_16(e.start) = start_time

\* mutant of _match_event: the start time is tried before the title
_match_event_time_first(events, title, start_time) ==
    LET byTitle == FirstIndex({i \in 1..Len(events) : TitleTest(events[i], title)})
        byTime  == FirstIndex({i \in 1..Len(events) :
                                  TimeTest(events[i], start_time)})
    IN  IF Len(events) = 0 THEN 0
        ELSE IF start_time # NoTime /\ byTime # 0 THEN byTime
        ELSE IF byTitle # 0 THEN byTitle
        ELSE IF Len(events) = 1 THEN 1
        ELSE 0

\* _match_event(events, title, start_time): the index of the event
\* returned, 0 for None
_match_event(events, title, start_time) ==
    LET byTitle == FirstIndex({i \in 1..Len(events) : TitleTest(events[i], title)})
        byTime  == FirstIndex({i \in 1..Len(events) :
                                  TimeTest(events[i], start_time)})
    IN  IF Len(events) = 0 THEN 0
        ELSE IF byTitle # 0 THEN byTitle
        ELSE IF start_time # NoTime /\ byTime # 0 THEN byTime
        ELSE IF Len(events) = 1 THEN 1
        ELSE 0

\* ------------------------------------------------------------------------
\* calendar_service.py: credentials
\* ------------------------------------------------------------------------

\* What a chat's token file holds: "none" (no file), "valid", "expired"
\* (expired, with a refresh token), "norefresh" (not valid and not
\* refreshable: no refresh token, or not expired).
TokenStates == {"none", "valid", "expired", "norefresh"}

\* what creds.refresh(Request()) does: succeed, raise RefreshError, or
\* raise another exception (a transport error)
RefreshOutcomes == {"ok", "RefreshError", "TransportError"}

\* _load_credentials(chat_id): ret is "creds", "None" or "raise" (an
\* exception other than RefreshError leaves the function); refreshes
\* counts the calls of creds.refresh
_load_credentials(tok, chat_id, refresh) ==
    IF tok[chat_id] = "none"
    THEN [ret |-> "None", tokens |-> tok, refreshes |-> 0]
    ELSE IF tok[chat_id] = "valid"
    THEN [ret |-> "creds", tokens |-> tok, refreshes |-> 0]
    ELSE IF tok[chat_id] = "expired" THEN
        IF refresh = "ok"
        THEN [ret |-> "creds", tokens |-> [tok EXCEPT ![chat_id] = "valid"],
              refreshes |-> 1]
        ELSE IF refresh = "RefreshError"
        THEN [ret |-> "None", tokens |-> [tok EXCEPT ![chat_id] = "none"],
              refreshes |-> 1]
        ELSE [ret |-> "raise", tokens |-> tok, refreshes |-> 1]
    ELSE [ret |-> "None", tokens |-> [tok EXCEPT ![chat_id] = "none"],
          refreshes |-> 0]

is_authenticated_always(tok, chat_id) == TRUE

\* is_authenticated(chat_id): the token file exists
is_authenticated(tok, chat_id) == tok[chat_id] # "none"

\* ------------------------------------------------------------------------
\* calendar_service.py: delete_event and edit_event
\* ------------------------------------------------------------------------

\* The messages of the (success, message) results.
MsgAuthExpired == [kind |-> "auth_expired"]   \* "인증이 만료되었습니다. ..."
MsgNotFound == [kind |-> "not_found"]         \* "해당 날짜에 일치하는 일정을 ..."
MsgNoPermission == [kind |-> "no_permission"] \* "캘린더 접근 권한이 없습니다."
MsgUnknown == [kind |-> "unknown_error"]      \* "알 수 없는 오류가 발생했습니다."
MsgApiError(status) == [kind |-> "api_error", status |-> status]
MsgTitle(t) == [kind |-> "title", title |-> t]

\* A remote call either succeeds or fails: at names the failing call
\* ("list", "write"), status the HTTP status of the HttpError raised, 0 for
\* an exception that is no HttpError (the network).
NoFault == [at |-> "none", status |-> 200]
Fault(at, status) == [at |-> at, status |-> status]

\* what raising at a remote call gives the inner function's caller
Raised(fault, cal, calls) ==
    [out |-> IF fault.status = 0 THEN "Exception" ELSE "HttpError",
     status |-> fault.status, cal |-> cal, calls |-> calls]

ValueError(cal) ==
    [out |-> "Exception", status |-> 0, cal |-> cal, calls |-> <<>>]

Returned(value, error, cal, calls) ==
    [out |-> "return", value |-> value, error |-> error, cal |-> cal,
     calls |-> calls]

\* the status of the HttpError the inner function raised, 0 when it raised
\* none
HttpStatus(r) == IF r.out = "HttpError" THEN r.status ELSE 0

\* the except clauses shared by add_event, delete_event and edit_event:
\* HttpError 403, any other HttpError, any other exception
ExceptClauses(r) ==
    IF r.out = "HttpError"
    THEN IF r.status = 403
         THEN [success |-> FALSE, message |-> MsgNoPermission]
         ELSE [success |-> FALSE, message |-> MsgApiError(r.status)]
    ELSE [success |-> FALSE, message |-> MsgUnknown]

\* the inner _delete() of delete_event; events is what the list call
\* returned
_delete(cal, dt, events, title, original_time, fault) ==
    IF ~_find_events_by_date_ok(dt) THEN ValueError(cal)
    ELSE IF fault.at = "list" THEN Raised(fault, cal, <<>>)
    ELSE
        LET idx == _match_event(events, title, original_time)
            matched == events[idx]
            call == [verb |-> "delete", id |-> matched.id]
        IN  IF idx = 0 THEN Returned(NoTitle, MsgNotFound, cal, <<>>)
            ELSE IF fault.at = "write" THEN Raised(fault, cal, <<call>>)
            ELSE Returned(IF matched.has_summary THEN matched.summary ELSE title,
                          [kind |-> "None"], cal \ {matched}, <<call>>)

\* the changes argument of edit_event
Changes(title, date, start_time, end_time) ==
    [title |-> title, date |-> date, start_time |-> start_time,
     end_time |-> end_time]

\* the body edit_event sends: matched with the changes applied
\* (calendar_service.py:259-311); valid only where EditParses holds
EditedStart(matched, dt, changes) ==
    LET new_date == IF changes.date # NoDate THEN changes.date ELSE dt
    IN  IF changes.start_time # NoTime
        THEN TimedField(strptime(new_date, changes.start_time))
        ELSE IF changes.date # NoDate /\ HasDateTime(matched.start)
        THEN TimedField(strptime(new_date, Slice11_16(matched.start)))
        ELSE matched.start

\* mutant of EditedEnd: a new start time without an end time leaves the
\* event's end where it was
EditedEnd_keeps_end(matched, dt, changes) ==
    LET new_date == IF changes.date # NoDate THEN changes.date ELSE dt
    IN  IF changes.end_time # NoTime
        THEN TimedField(strptime(new_date, changes.end_time))
        ELSE IF changes.start_time = NoTime /\ changes.date # NoDate
                /\ HasDateTime(matched.end)
        THEN TimedField(strptime(new_date, Slice11_16(matched.end)))
        ELSE matched.end

EditedEnd(matched, dt, changes) ==
    LET new_date == IF changes.date # NoDate THEN changes.date ELSE dt
    IN  IF changes.end_time # NoTime
        THEN TimedField(strptime(new_date, changes.end_time))
        ELSE IF changes.start_time # NoTime
        THEN TimedField(PlusOneHour(strptime(new_date, changes.start_time)))
        ELSE IF changes.date # NoDate /\ HasDateTime(matched.end)
        THEN TimedField(strptime(new_date, Slice11_16(matched.end)))
        ELSE matched.end

\* every strptime call the edit makes succeeds
EditParses(matched, dt, changes) ==
    LET new_date == IF changes.date # NoDate THEN changes.date ELSE dt
    IN  /\ changes.start_time # NoTime
            => strptime_ok(new_date, changes.start_time)
        /\ (changes.start_time = NoTime /\ changes.date # NoDate
              /\ (HasDateTime(matched.start) \/ HasDateTime(matched.end)))
            => ValidDate(new_date)
        /\ changes.end_time # NoTime
            => strptime_ok(new_date, changes.end_time)

EditedBody(matched, title, dt, changes) ==
    [id |-> matched.id,
     has_summary |-> matched.has_summary \/ changes.title # NoTitle,
     summary |-> IF changes.title # NoTitle THEN changes.title
                 ELSE matched.summary,
     start |-> EditedStart(matched, dt, changes),
     end |-> EditedEnd(matched, dt, changes)]

\* the inner _update() of edit_event
_update(cal, dt, events, title, original_time, changes, fault) ==
    IF ~_find_events_by_date_ok(dt) THEN ValueError(cal)
    ELSE IF fault.at = "list" THEN Raised(fault, cal, <<>>)
    ELSE
        LET idx == _match_event(events, title, original_time)
            matched == events[idx]
            body == EditedBody(matched, title, dt, changes)
            call == [verb |-> "update", id |-> matched.id, body |-> body]
        IN  IF idx = 0 THEN Returned(NoTitle, MsgNotFound, cal, <<>>)
            ELSE IF ~EditParses(matched, dt, changes) THEN ValueError(cal)
            ELSE IF fault.at = "write" THEN Raised(fault, cal, <<call>>)
            ELSE Returned(IF body.has_summary THEN body.summary ELSE title,
                          [kind |-> "None"],
                          (cal \ {matched}) \cup {body}, <<call>>)

\* mutant of Outcome: the `if error` test is missing
Outcome_ignores_error(r) ==
    IF r.out = "return"
    THEN [success |-> TRUE, message |-> MsgTitle(r.value)]
    ELSE ExceptClauses(r)

\* the part of delete_event and edit_event after the inner function:
\* `if error: return False, error`, else success, and the except clauses
Outcome(r) ==
    IF r.out = "return"
    THEN IF r.error.kind # "None"
         THEN [success |-> FALSE, message |-> r.error]
         ELSE [success |-> TRUE, message |-> MsgTitle(r.value)]
    ELSE ExceptClauses(r)

\* delete_event(chat_id, title, date, original_time): the result, the
\* remote calendar and the token files afterwards, and the remote write
\* calls issued.  raised: an exception left the operation.
delete_event(cal, tok, chat_id, title, dt, original_time, events, fault, refresh) ==
    LET loaded == _load_credentials(tok, chat_id, refresh)
        r == _delete(cal, dt, events, title, original_time, fault)
    IN  IF loaded.ret = "raise"
        THEN [raised |-> TRUE, result |-> [success |-> FALSE, message |-> MsgUnknown],
              cal |-> cal, tokens |-> loaded.tokens, calls |-> <<>>,
              http |-> 0]
        ELSE IF loaded.ret = "None"
        THEN [raised |-> FALSE,
              result |-> [success |-> FALSE, message |-> MsgAuthExpired],
              cal |-> cal, tokens |-> loaded.tokens, calls |-> <<>>,
              http |-> 0]
        ELSE [raised |-> FALSE, result |-> Outcome(r), cal |-> r.cal,
              tokens |-> loaded.tokens, calls |-> r.calls,
              http |-> HttpStatus(r)]

\* edit_event(chat_id, title, date, changes, original_time)
edit_event(cal, tok, chat_id, title, dt, changes, original_time, events, fault, refresh) ==
    LET loaded == _load_credentials(tok, chat_id, refresh)
        r == _update(cal, dt, events, title, original_time, changes, fault)
    IN  IF loaded.ret = "raise"
        THEN [raised |-> TRUE, result |-> [success |-> FALSE, message |-> MsgUnknown],
              cal |-> cal, tokens |-> loaded.tokens, calls |-> <<>>,
              http |-> 0]
        ELSE IF loaded.ret = "None"
        THEN [raised |-> FALSE,
              result |-> [success |-> FALSE, message |-> MsgAuthExpired],
              cal |-> cal, tokens |-> loaded.tokens, calls |-> <<>>,
              http |-> 0]
        ELSE [raised |-> FALSE, result |-> Outcome(r), cal |-> r.cal,
              tokens |-> loaded.tokens, calls |-> r.calls,
              http |-> HttpStatus(r)]

\* ------------------------------------------------------------------------
\* calendar_service.py: add_event, search_events, delete_events_by_range
\* and authenticate_user
\* ------------------------------------------------------------------------

MsgLink == [kind |-> "link"]                  \* event.get("htmlLink", "")
MsgNoEvents == [kind |-> "no_events"]         \* "해당 기간에 일정이 없습니다."
MsgNoAccess == [kind |-> "no_access"]         \* "공유 캘린더에 접근할 수 없습니다. ..."
MsgExchangeFailed == [kind |-> "exchange_failed"] \* "인증 코드 교환 실패: ..."
MsgConnected == [kind |-> "connected"]        \* "공유 캘린더 '...'에 연결되었습니다."
MsgNone == [kind |-> "None"]                  \* no error: "" or None

\* the event body add_event builds
InsertedBody(id, title, dt, start_time, end_time) ==
    LET start_dt == strptime(dt, start_time)
        end_dt == IF end_time # NoTime THEN strptime(dt, end_time)
                  ELSE PlusOneHour(start_dt)
    IN  Event(id, TRUE, title, TimedField(start_dt), TimedField(end_dt))

\* the inner _insert() of add_event; id is the id the remote gives the event
_insert(cal, id, title, dt, start_time, end_time, fault) ==
    IF ~strptime_ok(dt, start_time) THEN ValueError(cal)
    ELSE IF end_time # NoTime /\ ~strptime_ok(dt, end_time) THEN ValueError(cal)
    ELSE
        LET body == InsertedBody(id, title, dt, start_time, end_time)
            call == [verb |-> "insert", id |-> id, body |-> body]
        IN  IF fault.at = "write" THEN Raised(fault, cal, <<call>>)
            ELSE Returned(MsgLink, MsgNone, cal \cup {body}, <<call>>)

\* add_event(chat_id, title, date, start_time, end_time)
add_event(cal, tok, chat_id, id, title, dt, start_time, end_time, fault, refresh) ==
    LET loaded == _load_credentials(tok, chat_id, refresh)
        r == _insert(cal, id, title, dt, start_time, end_time, fault)
    IN  IF loaded.ret = "raise"
        THEN [raised |-> TRUE, result |-> [success |-> FALSE, message |-> MsgUnknown],
              cal |-> cal, tokens |-> loaded.tokens, calls |-> <<>>,
              http |-> 0]
        ELSE IF loaded.ret = "None"
        THEN [raised |-> FALSE,
              result |-> [success |-> FALSE, message |-> MsgAuthExpired],
              cal |-> cal, tokens |-> loaded.tokens, calls |-> <<>>,
              http |-> 0]
        ELSE [raised |-> FALSE,
              result |-> IF r.out = "return"
                         THEN [success |-> TRUE, message |-> r.value]
                         ELSE ExceptClauses(r),
              cal |-> r.cal, tokens |-> loaded.tokens, calls |-> r.calls,
              http |-> HttpStatus(r)]

\* events().list(timeMin, timeMax): the events that end after the start of
\* day a and start before the end of day b
InRange(e, a, b) ==
    /\ \/ DateLess(e.start.date, b)
       \/ e.start.date = b
    /\ \/ DateLess(a, e.end.date)
       \/ e.end.date = a /\ HasDateTime(e.end) /\ MinuteOfDay(e.end) > 0

\* the q parameter of events().list: the events whose text holds the keyword
MatchesQ(e, keyword) ==
    keyword = NoTitle \/ StrIn(lower(keyword), lower(GetSummary(e)))

\* what the list call of _search and _bulk_delete may return
ListRange(cal, date_from, date_to, keyword) ==
    Listings({e \in cal :
                 /\ InRange(e, _safe_parse_date(date_from),
                            _safe_parse_date(date_to))
                 /\ MatchesQ(e, keyword)})

\* the inner _search() of search_events with date_from and date_to given;
\* events is what the list call returned
_search(date_from, date_to, events, fault) ==
    [ok |-> /\ _safe_parse_date_ok(date_from)
            /\ _safe_parse_date_ok(date_to)
            /\ fault.at # "list",
     items |-> events]

\* a fault of the k-th remote call of its kind
FaultAt(at, status, index) == [at |-> at, status |-> status, index |-> index]

\* the delete calls _bulk_delete issued up to and including the k-th
DeleteCalls(events, k) ==
    [i \in 1..k |-> [verb |-> "delete", id |-> events[i].id]]

\* the inner _bulk_delete() of delete_events_by_range; events is what the
\* list call returned; a write fault strikes the delete call fault.index
_bulk_delete(cal, date_from, date_to, events, fault) ==
    IF ~_safe_parse_date_ok(date_from) \/ ~_safe_parse_date_ok(date_to)
    THEN ValueError(cal)
    ELSE IF fault.at = "list" THEN Raised(fault, cal, <<>>)
    ELSE IF events = <<>> THEN Returned(0, MsgNoEvents, cal, <<>>)
    ELSE IF fault.at = "write" /\ fault.index <= Len(events)
    THEN Raised(fault,
                cal \ {events[i] : i \in 1..(fault.index - 1)},
                DeleteCalls(events, fault.index))
    ELSE Returned(Len(events), MsgNone,
                  cal \ {events[i] : i \in 1..Len(events)},
                  DeleteCalls(events, Len(events)))

\* delete_events_by_range(chat_id, date_from, date_to, keyword): the
\* (count, error) result
delete_events_by_range(cal, tok, chat_id, date_from, date_to, events, fault, refresh) ==
    LET loaded == _load_credentials(tok, chat_id, refresh)
        r == _bulk_delete(cal, date_from, date_to, events, fault)
    IN  IF loaded.ret = "raise"
        THEN [raised |-> TRUE, result |-> [count |-> 0, error |-> MsgUnknown],
              cal |-> cal, tokens |-> loaded.tokens, calls |-> <<>>,
              http |-> 0]
        ELSE IF loaded.ret = "None"
        THEN [raised |-> FALSE,
              result |-> [count |-> 0, error |-> MsgAuthExpired],
              cal |-> cal, tokens |-> loaded.tokens, calls |-> <<>>,
              http |-> 0]
        ELSE [raised |-> FALSE,
              result |-> IF r.out = "return"
                         THEN [count |-> r.value, error |-> r.error]
                         ELSE [count |-> 0, error |-> ExceptClauses(r).message],
              cal |-> r.cal, tokens |-> loaded.tokens, calls |-> r.calls,
              http |-> HttpStatus(r)]

\* what calendars().get() answers in the access check: HTTP 200, an
\* HttpError status, or 0 for an exception that is no HttpError
AccessOutcomes == {200, 403, 404, 500, 0}

\* _check_calendar_access_sync(creds)
_check_calendar_access_sync(access) ==
    IF access = 200
    THEN [raised |-> FALSE, has_access |-> TRUE, message |-> MsgConnected]
    ELSE IF access = 0
    THEN [raised |-> TRUE, has_access |-> FALSE, message |-> MsgUnknown]
    ELSE IF access \in {403, 404}
    THEN [raised |-> FALSE, has_access |-> FALSE, message |-> MsgNoAccess]
    ELSE [raised |-> FALSE, has_access |-> FALSE, message |-> MsgApiError(access)]

\* _save_credentials(chat_id, creds) with a freshly granted credential
_save_credentials(tok, chat_id) == [tok EXCEPT ![chat_id] = "valid"]

authenticate_user_saves_first(tok, chat_id, exchanged, access) ==
    LET checked == _check_calendar_access_sync(access)
    IN  IF ~exchanged
        THEN [raised |-> FALSE, tokens |-> tok, saved |-> FALSE,
              result |-> [success |-> FALSE, message |-> MsgExchangeFailed]]
        ELSE [raised |-> checked.raised, tokens |-> _save_credentials(tok, chat_id),
              saved |-> TRUE,
              result |-> [success |-> checked.has_access,
                          message |-> checked.message]]

\* authenticate_user(chat_id, auth_code): exchanged tells whether
\* flow.fetch_token succeeded; saved whether _save_credentials was called
authenticate_user(tok, chat_id, exchanged, access) ==
    LET checked == _check_calendar_access_sync(access)
    IN  IF ~exchanged
        THEN [raised |-> FALSE, tokens |-> tok, saved |-> FALSE,
              result |-> [success |-> FALSE, message |-> MsgExchangeFailed]]
        ELSE IF checked.raised
        THEN [raised |-> TRUE, tokens |-> tok, saved |-> FALSE,
              result |-> [success |-> FALSE, message |-> MsgUnknown]]
        ELSE IF ~checked.has_access
        THEN [raised |-> FALSE, tokens |-> tok, saved |-> FALSE,
              result |-> [success |-> FALSE, message |-> checked.message]]
        ELSE [raised |-> FALSE, tokens |-> _save_credentials(tok, chat_id),
              saved |-> TRUE,
              result |-> [success |-> TRUE, message |-> MsgConnected]]

\* ------------------------------------------------------------------------
\* The dispatcher's state (telegram_bot.py, scheduler.py)
\* ------------------------------------------------------------------------

\* A dict slot: <<>> when the key is absent, <<v>> when it maps to v.
Absent == <<>>

Present(v) == <<v>>

\* the destinations geocode() can resolve
Dests == {"A", "B"}

\* the event lists the remote calendar returns to a listing request
EvLists == {<<>>, <<"e1">>}

\* FUNCTION_REGISTRY and the three function classes
FUNCTION_REGISTRY ==
    {"add_event", "add_events_by_range", "add_multiday_event", "delete_event",
     "delete_events_by_range", "edit_event", "get_today_events",
     "get_week_events", "search_events", "navigate"}

_MUTATION_FUNCTIONS ==
    {"add_event", "add_events_by_range", "add_multiday_event", "delete_event",
     "delete_events_by_range", "edit_event"}

_QUERY_FUNCTIONS == {"get_today_events", "get_week_events", "search_events"}

_NAVIGATION_FUNCTIONS == {"navigate"}

\* a handler task slot that runs nothing
Idle == [kind |-> "idle"]

\* no message was sent by the step
NoOut == [kind |-> "none"]

\* The dispatcher at rest: module-level dicts empty, no task in flight.
BotIdle ==
    /\ _event_context = [c \in Chats |-> Absent]
    /\ _last_raw_events = [c \in Chats |-> Absent]
    /\ _pending_navigation = [c \in Chats |-> Absent]
    /\ tasks = [t \in 1..MaxTasks |-> Idle]
    /\ job = Idle
    /\ out = NoOut
    /\ shown = [c \in Chats |-> Absent]
    /\ lastResolved = [c \in Chats |-> Absent]
    /\ consumed = [c \in Chats |-> FALSE]
    /\ nUpdates = 0
    /\ maxActive = 1

\* set_event_context(chat_id, events): the snapshot of the chat is replaced
set_event_context(ctx, chat_id, events) ==
    [ctx EXCEPT ![chat_id] = Present(events)]

\* the index of the last tool entry of a history, 0 when there is none
LastToolIndex(hist) ==
    LET idx == {i \in 1..Len(hist) : hist[i].role = "tool"}
    IN  IF idx = {} THEN 0 ELSE CHOOSE i \in idx : \A j \in idx : j <= i

\* replace_last_tool_result(chat_id, content): the content of the last tool
\* result of the chat becomes content
replace_last_tool_result(h, chat_id, content) ==
    LET i == LastToolIndex(h[chat_id])
    IN  IF i = 0 THEN h
        ELSE [h EXCEPT ![chat_id][i] =
                 [role |-> "tool", tool_call_id |-> @.tool_call_id,
                  content |-> content]]

\* get_all_authenticated_chat_ids(): the chats with a token file, in the
\* order glob() yields them
get_all_authenticated_chat_ids(tok) ==
    LET S == {c \in Chats : tok[c] # "none"}
    IN  {s \in [1..Cardinality(S) -> S] :
            \A i, j \in 1..Cardinality(S) : s[i] = s[j] => i = j}

\* _get_any_valid_creds(): the first chat of the glob order whose
\* credentials load; loading deletes the token files it finds unusable
RECURSIVE _get_any_valid_creds(_, _, _)
_get_any_valid_creds(tok, order, refresh) ==
    IF order = <<>> THEN [ret |-> "None", tokens |-> tok]
    ELSE LET creds == _load_credentials(tok, Head(order), refresh[Head(order)])
         IN  IF creds.ret = "None"
             THEN _get_any_valid_creds(creds.tokens, Tail(order), refresh)
             ELSE creds

\* get_today_events() and get_week_events(): listed is what events().list
\* answers, its items or a failure
get_today_events(tok, order, refresh, listed) ==
    LET creds == _get_any_valid_creds(tok, order, refresh)
    IN  IF creds.ret = "raise"
        THEN [raised |-> TRUE, events |-> <<>>, tokens |-> creds.tokens]
        ELSE IF creds.ret = "None" \/ ~listed.ok
        THEN [raised |-> FALSE, events |-> <<>>, tokens |-> creds.tokens]
        ELSE [raised |-> FALSE, events |-> listed.items, tokens |-> creds.tokens]

\* search_events(chat_id, ...)
search_events(tok, chat_id, refresh, listed) ==
    LET creds == _load_credentials(tok, chat_id, refresh)
    IN  IF creds.ret = "raise"
        THEN [raised |-> TRUE, events |-> <<>>, tokens |-> creds.tokens]
        ELSE IF creds.ret = "None" \/ ~listed.ok
        THEN [raised |-> FALSE, events |-> <<>>, tokens |-> creds.tokens]
        ELSE [raised |-> FALSE, events |-> listed.items, tokens |-> creds.tokens]

PopPending_keeps_entry(pend, chat_id) == pend

\* _pending_navigation.pop(chat_id, None)
PopPending(pend, chat_id) == [pend EXCEPT ![chat_id] = Absent]

StorePending_keeps_earlier(pend, chat_id, destination) ==
    IF pend[chat_id] = Absent
    THEN [pend EXCEPT ![chat_id] =
             Present([destination |-> destination, prompt_message_id |-> 0])]
    ELSE pend

\* _pending_navigation[chat_id] = {"destination": ..., ...}
StorePending(pend, chat_id, destination) ==
    [pend EXCEPT ![chat_id] =
        Present([destination |-> destination, prompt_message_id |-> 0])]

\* ------------------------------------------------------------------------
\* SpecHist: any sequence of appender calls on any chat
\* ------------------------------------------------------------------------

\* A history of n user messages: what n process_message calls whose
\* completion request failed leave behind (nlp_service.py:252, 295-300).
Prefill(n) == [i \in 1..n |-> [role |-> "user", content |-> i]]

InitHist ==
    /\ \E n \in {0, MAX_HISTORY - 1} :
          _chat_histories = [c \in Chats |-> IF c = 1 THEN Prefill(n) ELSE <<>>]
    /\ appended = _chat_histories
    /\ nCalls = 0
    /\ calendar = {}
    /\ tokens = [c \in Chats |-> "none"]
    /\ lastOp = [op |-> "idle"]
    /\ BotIdle
    /\ budget = 0

\* the label of the next entry of a chat: its position in append order
NextLabel(c) == Len(appended[c]) + 1

AddUserMessage(c) ==
    /\ nCalls < MaxCalls
    /\ _chat_histories' = add_user_message(_chat_histories, c, NextLabel(c))
    /\ appended' = [appended EXCEPT ![c] =
          Append(@, [role |-> "user", content |-> NextLabel(c)])]
    /\ nCalls' = nCalls + 1
    /\ UNCHANGED <<calVars, tokens, botVars>>

AddAssistantToolCall(c) ==
    /\ nCalls < MaxCalls
    /\ _chat_histories' = add_assistant_tool_call(_chat_histories, c, NextLabel(c))
    /\ appended' = [appended EXCEPT ![c] =
          Append(@, [role |-> "assistant", tool_calls |-> <<NextLabel(c)>>])]
    /\ nCalls' = nCalls + 1
    /\ UNCHANGED <<calVars, tokens, botVars>>

AddToolResult(c) ==
    /\ nCalls < MaxCalls
    /\ _chat_histories' =
          add_tool_result(_chat_histories, c, NextLabel(c), NextLabel(c))
    /\ appended' = [appended EXCEPT ![c] =
          Append(@, [role |-> "tool", tool_call_id |-> NextLabel(c),
                     content |-> NextLabel(c)])]
    /\ nCalls' = nCalls + 1
    /\ UNCHANGED <<calVars, tokens, botVars>>

AddAssistantMessage(c) ==
    /\ nCalls < MaxCalls
    /\ _chat_histories' = add_assistant_message(_chat_histories, c, NextLabel(c))
    /\ appended' = [appended EXCEPT ![c] =
          Append(@, [role |-> "assistant", content |-> NextLabel(c)])]
    /\ nCalls' = nCalls + 1
    /\ UNCHANGED <<calVars, tokens, botVars>>

NextHist ==
    \/ \E c \in Chats : AddUserMessage(c)
    \/ \E c \in Chats : AddAssistantToolCall(c)
    \/ \E c \in Chats : AddToolResult(c)
    \/ \E c \in Chats : AddAssistantMessage(c)

SpecHist == InitHist /\ [][NextHist]_vars

\* ------------------------------------------------------------------------
\* SpecCal: one calendar operation of a chat against any small calendar.
\* The shared calendar is a remote resource other people edit, so an
\* operation may find any events in it.
\* ------------------------------------------------------------------------

D1 == Date(2024, 2, 28)
D2 == Date(2024, 2, 29)

T0900 == Time(9, 0, TRUE)
T9_00 == Time(9, 0, FALSE)     \* "9:00"
T1000 == Time(10, 0, TRUE)
T1100 == Time(11, 0, TRUE)
T2330 == Time(23, 30, TRUE)

EventPool ==
    { Event(1, TRUE, <<"a", "b">>,
            TimedField(strptime(D1, T0900)), TimedField(strptime(D1, T1000))),
      Event(2, TRUE, <<"c">>,
            TimedField(strptime(D1, T0900)), TimedField(strptime(D1, T1000))),
      Event(3, TRUE, <<"B">>, AllDayField(D1), AllDayField(D2)),
      Event(4, TRUE, <<"a">>,
            TimedField(strptime(D1, T2330)),
            TimedField(PlusOneHour(strptime(D1, T2330)))),
      Event(5, FALSE, <<>>,
            TimedField(strptime(D2, T1000)), TimedField(strptime(D2, T1100))) }

TitleArgs == {<<>>, <<"A", "B">>, <<"x">>}
DateArgs == {D1, D2}
OriginalTimeArgs == {NoTime, T0900, T9_00}
ChangesArgs ==
    { Changes(t, d, st, et) :
        t \in {NoTitle, <<"x">>}, d \in {NoDate, D2},
        st \in {NoTime, T2330}, et \in {NoTime, T0900} }
FaultArgs ==
    {NoFault, Fault("list", 403)}
        \cup {Fault("write", st) : st \in {403, 404, 0}}

\* ghost: the index _match_event returned in an operation, -1 when the
\* operation ended before it matched (no credentials, a date that does not
\* parse, a failed list call)
MatchedIn(tok, c, refresh, dt, fault, events, title, ot) ==
    IF /\ _load_credentials(tok, c, refresh).ret = "creds"
       /\ _find_events_by_date_ok(dt)
       /\ fault.at # "list"
    THEN _match_event(events, title, ot)
    ELSE -1

\* the chats on whose behalf SpecCal runs the operations
CalChats == {1}

\* refresh() is called for an expired token only
RefreshArgs(tok, c) ==
    IF tok[c] = "expired" THEN RefreshOutcomes ELSE {"ok"}

InitCal ==
    /\ calendar \in {evs \in SUBSET EventPool : Cardinality(evs) <= MaxEvents}
    /\ tokens \in {[c \in Chats |-> t] : t \in {"valid", "expired"}}
    /\ lastOp = [op |-> "idle"]
    /\ _chat_histories = [c \in Chats |-> <<>>]
    /\ appended = _chat_histories
    /\ nCalls = 0
    /\ BotIdle
    /\ budget = 0

DeleteEvent ==
    /\ lastOp.op = "idle"
    /\ \E CalChat \in CalChats : \E title \in TitleArgs, dt \in DateArgs, ot \in OriginalTimeArgs,
          fault \in FaultArgs, refresh \in RefreshArgs(tokens, CalChat) :
       \E events \in _find_events_by_date(calendar, dt) :
          LET r == delete_event(calendar, tokens, CalChat, title, dt, ot,
                                events, fault, refresh)
          IN  /\ calendar' = r.cal
              /\ tokens' = r.tokens
              /\ lastOp' = [op |-> "delete_event", chat |-> CalChat, title |-> title, date |-> dt,
                            original_time |-> ot, changes |-> Changes(NoTitle, NoDate, NoTime, NoTime),
                            events |-> events, fault |-> fault,
                            matched |-> MatchedIn(tokens, CalChat, refresh, dt,
                                                  fault, events, title, ot),
                            loaded |-> _load_credentials(tokens, CalChat, refresh).ret,
                            before |-> calendar, raised |-> r.raised,
                            result |-> r.result, calls |-> r.calls]
    /\ UNCHANGED <<histVars, botVars>>

EditEvent ==
    /\ lastOp.op = "idle"
    /\ \E CalChat \in CalChats : \E title \in TitleArgs, dt \in DateArgs, ot \in OriginalTimeArgs,
          changes \in ChangesArgs,
          fault \in FaultArgs, refresh \in RefreshArgs(tokens, CalChat) :
       \E events \in _find_events_by_date(calendar, dt) :
          LET r == edit_event(calendar, tokens, CalChat, title, dt, changes,
                              ot, events, fault, refresh)
          IN  /\ calendar' = r.cal
              /\ tokens' = r.tokens
              /\ lastOp' = [op |-> "edit_event", chat |-> CalChat, title |-> title, date |-> dt,
                            original_time |-> ot, changes |-> changes,
                            events |-> events, fault |-> fault,
                            matched |-> MatchedIn(tokens, CalChat, refresh, dt,
                                                  fault, events, title, ot),
                            loaded |-> _load_credentials(tokens, CalChat, refresh).ret,
                            before |-> calendar, raised |-> r.raised,
                            result |-> r.result, calls |-> r.calls]
    /\ UNCHANGED <<histVars, botVars>>

NextCal ==
    \/ DeleteEvent
    \/ EditEvent

SpecCal == InitCal /\ [][NextCal]_vars

\* ------------------------------------------------------------------------
\* Spec: the dispatcher's handlers, one step per await
\* ------------------------------------------------------------------------

\* what the completion request of process_message can come back with
Calls ==
    {[fn |-> f, arg |-> a] : f \in {"add_event", "delete_events_by_range"},
                             a \in {"dated", "undated"}}
    \cup {[fn |-> f, arg |-> "none"] : f \in {"get_today_events", "get_week_events"}}
    \cup {[fn |-> "search_events", arg |-> a] : a \in {"keyword", "nokeyword"}}
    \cup {[fn |-> "navigate", arg |-> a] : a \in {"destination", "date", "today"}}
    \cup {[fn |-> "unknown_function", arg |-> "none"]}

Completions ==
    {[type |-> "text_response"], [type |-> "error"]}
    \cup {[type |-> "function_call", call |-> k, parsed |-> TRUE] : k \in Calls}
    \cup {[type |-> "function_call", call |-> [fn |-> "add_event", arg |-> "none"],
           parsed |-> FALSE]}

\* the token files the bot starts with
InitTokens ==
    {<<"valid", "none">>, <<"valid", "expired">>, <<"norefresh", "valid">>}

\* the refresh outcomes of one walk over the token files
RefreshMaps(tok) ==
    {r \in [Chats -> RefreshOutcomes] : \A c \in Chats : r[c] \in RefreshArgs(tok, c)}

\* what events().list() answers
ListedArgs ==
    {[ok |-> TRUE, items |-> e] : e \in EvLists}
    \cup {[ok |-> FALSE, items |-> <<>>]}

\* the indices the follow-up completion names select some of the raw events
FilterResults(raw) ==
    {<<>>, raw} \cup {<<raw[i]>> : i \in 1..Len(raw)}

Active == {t \in 1..MaxTasks : tasks[t].kind # "idle"}

CanStart_overlapping(t) ==
    /\ nUpdates < budget
    /\ tasks[t].kind = "idle"
    /\ \A u \in 1..MaxTasks : u < t => tasks[u].kind # "idle"

\* The application takes the next update when a handler slot is free: it
\* is built without concurrent_updates, so it awaits the handlers of one
\* update before it takes the next.
CanStart(t) ==
    /\ nUpdates < budget
    /\ tasks[t].kind = "idle"
    /\ Cardinality(Active) < maxActive
    /\ \A u \in 1..MaxTasks : u < t => tasks[u].kind # "idle"

At(t, kind, pc) == tasks[t].kind = kind /\ tasks[t].pc = pc

Message(handler, chat_id, kind, ok, keyboard, data) ==
    [kind |-> kind, handler |-> handler, chat |-> chat_id, ok |-> ok,
     keyboard |-> keyboard, data |-> data]

\* a listing that reached the chat is the one the chat sees last
Shown(sh, chat_id, ok, events) ==
    IF ok THEN [sh EXCEPT ![chat_id] = Present(events)] ELSE sh

\* an exception that leaves the handler is given to error_handler
Escaped(task) == [kind |-> "error", chat |-> task.chat, pc |-> "error_handler"]

SetTask(t, task) == tasks' = [tasks EXCEPT ![t] = task]

Rest == UNCHANGED <<appended, nCalls, calendar, lastOp, budget, maxActive, job>>

\* handle_text_message up to the first await
TextStart(t, c) ==
    /\ CanStart(t)
    /\ nUpdates' = nUpdates + 1
    /\ IF ~is_authenticated(tokens, c)
       THEN /\ SetTask(t, [kind |-> "text", chat |-> c, pc |-> "reply_return",
                           authed |-> FALSE, id |-> 0,
                           fn |-> "", arg |-> "", reply |-> "start_first",
                           raw |-> <<>>])
            /\ UNCHANGED _chat_histories
       ELSE /\ SetTask(t, [kind |-> "text", chat |-> c, pc |-> "await_completion",
                           authed |-> TRUE, id |-> 0,
                           fn |-> "", arg |-> "", reply |-> "",
                           raw |-> <<>>])
            /\ _chat_histories' = add_user_message(_chat_histories, c, "message")
    /\ out' = NoOut
    /\ UNCHANGED <<tokens, _event_context, _last_raw_events, _pending_navigation,
                   shown, lastResolved, consumed>>
    /\ Rest

\* a reply_text outside the try block, followed by return
ReplyReturn(t) ==
    /\ tasks[t].kind \in {"text", "today"}
    /\ tasks[t].pc = "reply_return"
    /\ \E ok \in BOOLEAN :
          /\ out' = Message(tasks[t].kind, tasks[t].chat, tasks[t].reply, ok, FALSE, <<>>)
          /\ SetTask(t, IF ok THEN Idle ELSE Escaped(tasks[t]))
    /\ UNCHANGED <<_chat_histories, tokens, _event_context, _last_raw_events,
                   _pending_navigation, shown, lastResolved, consumed, nUpdates>>
    /\ Rest

\* the tool call ids a history holds
ToolCallIds(hist) ==
    {hist[i].tool_calls[1] : i \in {j \in 1..Len(hist) : hist[j].role = "assistant"
                                      /\ "tool_calls" \in DOMAIN hist[j]}}

\* tool_call.id: an id the chat has not seen
FreshId(hist) ==
    IF ToolCallIds(hist) = {} THEN 1
    ELSE 1 + CHOOSE i \in ToolCallIds(hist) : \A j \in ToolCallIds(hist) : j <= i

GetExecutor_any(fn_name) == fn_name

\* FUNCTION_REGISTRY.get(fn_name)
GetExecutor(fn_name) ==
    IF fn_name \in FUNCTION_REGISTRY THEN fn_name ELSE "None"

\* process_message after the completion request came back, and
\* handle_text_message up to the executor
Completion(t, answers) ==
    /\ At(t, "text", "await_completion")
    /\ \E r \in answers :
         LET task == tasks[t]
             c == task.chat
         IN  CASE r.type = "text_response" ->
                    /\ _chat_histories' =
                          add_assistant_message(_chat_histories, c, "text")
                    /\ SetTask(t, [task EXCEPT !.pc = "reply_return",
                                               !.reply = "text_response"])
               [] r.type = "error" ->
                    /\ UNCHANGED _chat_histories
                    /\ SetTask(t, [task EXCEPT !.pc = "reply_return",
                                               !.reply = "error"])
               [] OTHER ->
                    /\ _chat_histories' =
                          add_assistant_tool_call(_chat_histories, c,
                                                  FreshId(_chat_histories[c]))
                    /\ SetTask(t,
                          IF ~r.parsed
                          THEN [task EXCEPT !.pc = "reply_return", !.reply = "error"]
                          ELSE IF GetExecutor(r.call.fn) = "None"
                          THEN [task EXCEPT !.pc = "reply_return",
                                            !.reply = "unsupported",
                                            !.fn = r.call.fn]
                          ELSE [task EXCEPT !.pc = "executor", !.fn = r.call.fn,
                                            !.arg = r.call.arg,
                                            !.id = FreshId(_chat_histories[c])])
    /\ out' = NoOut
    /\ UNCHANGED <<tokens, _event_context, _last_raw_events, _pending_navigation,
                   shown, lastResolved, consumed, nUpdates>>
    /\ Rest

TextCompletion(t) == Completion(t, Completions)

\* The handler from the executor's return to the next await: the tool
\* result is recorded and the branch of the function class is entered.
AfterExecutor(task, reply, pend, raw) ==
    IF task.fn \in _NAVIGATION_FUNCTIONS /\ pend[task.chat] # Absent
    THEN [task EXCEPT !.pc = "reply_nav", !.reply = reply]
    ELSE IF task.fn \in _QUERY_FUNCTIONS
    THEN IF task.fn = "search_events" /\ task.arg = "keyword" /\ raw # <<>>
         THEN [task EXCEPT !.pc = "await_filter", !.reply = reply, !.raw = raw]
         ELSE [task EXCEPT !.pc = "reply_listing", !.reply = reply, !.raw = raw]
    ELSE [task EXCEPT !.pc = "reply_plain", !.reply = reply]

\* the except clause of handle_text_message up to its reply
Except(task) == [task EXCEPT !.pc = "reply_generic"]

\* the six mutating executors
ExecMutation(t) ==
    /\ At(t, "text", "executor")
    /\ tasks[t].fn \in _MUTATION_FUNCTIONS
    /\ \E refresh \in RefreshArgs(tokens, tasks[t].chat), success \in BOOLEAN :
         LET task == tasks[t]
             c == task.chat
             creds == _load_credentials(tokens, c, refresh)
             reply == IF creds.ret = "creds" /\ success THEN "done" ELSE "failed"
         IN  /\ tokens' = creds.tokens
             /\ IF creds.ret = "raise"
                THEN /\ _chat_histories' =
                           add_tool_result(_chat_histories, c, task.id, "error")
                     /\ SetTask(t, Except(task))
                ELSE /\ _chat_histories' =
                           add_tool_result(_chat_histories, c, task.id, "reply")
                     /\ SetTask(t, AfterExecutor(task, reply,
                                                 _pending_navigation, <<>>))
    /\ out' = NoOut
    /\ UNCHANGED <<_event_context, _last_raw_events, _pending_navigation,
                   shown, lastResolved, consumed, nUpdates>>
    /\ Rest

\* _exec_get_today_events, _exec_get_week_events, _exec_search_events
ExecQuery(t) ==
    /\ At(t, "text", "executor")
    /\ tasks[t].fn \in _QUERY_FUNCTIONS
    /\ \E order \in get_all_authenticated_chat_ids(tokens),
          refresh \in RefreshMaps(tokens), listed \in ListedArgs :
         LET task == tasks[t]
             c == task.chat
             got == IF task.fn = "search_events"
                    THEN search_events(tokens, c, refresh[c], listed)
                    ELSE get_today_events(tokens, order, refresh, listed)
             stored == [_last_raw_events EXCEPT ![c] = Present(got.events)]
         IN  /\ tokens' = got.tokens
             /\ IF got.raised
                THEN /\ _chat_histories' =
                           add_tool_result(_chat_histories, c, task.id, "error")
                     /\ SetTask(t, Except(task))
                     /\ UNCHANGED _last_raw_events
                ELSE /\ _chat_histories' =
                           add_tool_result(_chat_histories, c, task.id, "reply")
                     /\ SetTask(t, AfterExecutor(task, "listing",
                                       _pending_navigation, stored[c][1]))
                     /\ _last_raw_events' = [stored EXCEPT ![c] = Absent]
    /\ out' = NoOut
    /\ UNCHANGED <<_event_context, _pending_navigation,
                   shown, lastResolved, consumed, nUpdates>>
    /\ Rest

\* _exec_navigate up to its geocode request: case 1 has nothing before it,
\* case 2 looks for an event with a location first
ExecNavigate(t) ==
    /\ At(t, "text", "executor")
    /\ tasks[t].fn \in _NAVIGATION_FUNCTIONS
    /\ \E order \in get_all_authenticated_chat_ids(tokens),
          refresh \in RefreshMaps(tokens), listed \in ListedArgs,
          target \in BOOLEAN :
         LET task == tasks[t]
             c == task.chat
             got == IF task.arg = "date"
                    THEN search_events(tokens, c, refresh[c], listed)
                    ELSE get_today_events(tokens, order, refresh, listed)
         IN  IF task.arg = "destination"
             THEN /\ SetTask(t, [task EXCEPT !.pc = "await_geocode"])
                  /\ UNCHANGED <<tokens, _chat_histories>>
             ELSE /\ tokens' = got.tokens
                  /\ IF got.raised
                     THEN /\ _chat_histories' =
                                add_tool_result(_chat_histories, c, task.id, "error")
                          /\ SetTask(t, Except(task))
                     ELSE IF got.events = <<>> \/ ~target
                     THEN /\ _chat_histories' =
                                add_tool_result(_chat_histories, c, task.id,
                                                "reply")
                          /\ SetTask(t, AfterExecutor(task, "not_found",
                                                      _pending_navigation, <<>>))
                     ELSE /\ SetTask(t, [task EXCEPT !.pc = "await_geocode"])
                          /\ UNCHANGED _chat_histories
    /\ out' = NoOut
    /\ UNCHANGED <<_event_context, _last_raw_events, _pending_navigation,
                   shown, lastResolved, consumed, nUpdates>>
    /\ Rest

\* _exec_navigate after geocode() came back: a resolved destination
\* becomes the chat's pending navigation
NavigateResolved(t) ==
    /\ At(t, "text", "await_geocode")
    /\ \E result \in Dests \cup {"None"} :
         LET task == tasks[t]
             c == task.chat
             pend == IF result = "None" THEN _pending_navigation
                     ELSE StorePending(_pending_navigation, c, result)
             reply == IF result = "None" THEN "not_found" ELSE "found"
         IN  /\ _pending_navigation' = pend
             /\ lastResolved' =
                   IF result = "None" THEN lastResolved
                   ELSE [lastResolved EXCEPT ![c] =
                            Present([destination |-> result,
                                     earlier |-> _pending_navigation[c]])]
             /\ consumed' = IF result = "None" THEN consumed
                            ELSE [consumed EXCEPT ![c] = FALSE]
             /\ _chat_histories' =
                   add_tool_result(_chat_histories, c, task.id, "reply")
             /\ SetTask(t, AfterExecutor(task, reply, pend, <<>>))
    /\ out' = NoOut
    /\ UNCHANGED <<tokens, _event_context, _last_raw_events, shown, nUpdates>>
    /\ Rest

\* the navigation branch: the prompt with the share-location keyboard,
\* then the prompt's message id is written into the pending entry
ReplyNav(t) ==
    /\ At(t, "text", "reply_nav")
    /\ \E ok \in BOOLEAN :
         LET task == tasks[t]
             c == task.chat
         IN  /\ out' = Message(task.kind, c, task.reply, ok, TRUE, <<>>)
             /\ IF ok /\ _pending_navigation[c] # Absent
                THEN /\ _pending_navigation' =
                           [_pending_navigation EXCEPT
                               ![c][1].prompt_message_id = 1]
                     /\ SetTask(t, Idle)
                     /\ UNCHANGED _chat_histories
                ELSE /\ _chat_histories' =
                           add_tool_result(_chat_histories, c, task.id, "error")
                     /\ SetTask(t, Except(task))
                     /\ UNCHANGED _pending_navigation
    /\ UNCHANGED <<tokens, _event_context, _last_raw_events, shown,
                   lastResolved, consumed, nUpdates>>
    /\ Rest

\* the keyword branch: get_followup_response names the matching events and
\* the tool result in the history is replaced by the filtered listing
AwaitFilter(t) ==
    /\ At(t, "text", "await_filter")
    /\ \E filtered_events \in FilterResults(tasks[t].raw) :
         LET task == tasks[t]
             c == task.chat
         IN  /\ _chat_histories' =
                   replace_last_tool_result(_chat_histories, c, "filtered")
             /\ SetTask(t, [task EXCEPT !.pc = "reply_filtered",
                                        !.raw = filtered_events])
    /\ out' = NoOut
    /\ UNCHANGED <<tokens, _event_context, _last_raw_events, _pending_navigation,
                   shown, lastResolved, consumed, nUpdates>>
    /\ Rest

ReplyFiltered(t) ==
    /\ At(t, "text", "reply_filtered")
    /\ \E ok \in BOOLEAN :
         LET task == tasks[t]
             c == task.chat
         IN  /\ out' = Message(task.kind, c, "listing", ok, FALSE, task.raw)
             /\ shown' = Shown(shown, c, ok, task.raw)
             /\ IF ok
                THEN /\ _event_context' =
                           set_event_context(_event_context, c, task.raw)
                     /\ SetTask(t, Idle)
                     /\ UNCHANGED _chat_histories
                ELSE /\ _chat_histories' =
                           add_tool_result(_chat_histories, c, task.id, "error")
                     /\ SetTask(t, Except(task))
                     /\ UNCHANGED _event_context
    /\ UNCHANGED <<tokens, _last_raw_events, _pending_navigation,
                   lastResolved, consumed, nUpdates>>
    /\ Rest

\* the full listing of a query
ReplyListing(t) ==
    /\ At(t, "text", "reply_listing")
    /\ \E ok \in BOOLEAN :
         LET task == tasks[t]
             c == task.chat
         IN  /\ out' = Message(task.kind, c, "listing", ok, FALSE, task.raw)
             /\ shown' = Shown(shown, c, ok, task.raw)
             /\ IF ok
                THEN /\ _chat_histories' =
                           add_assistant_message(_chat_histories, c, "listing")
                     /\ _event_context' =
                           set_event_context(_event_context, c, task.raw)
                     /\ SetTask(t, Idle)
                ELSE /\ _chat_histories' =
                           add_tool_result(_chat_histories, c, task.id, "error")
                     /\ SetTask(t, Except(task))
                     /\ UNCHANGED _event_context
    /\ UNCHANGED <<tokens, _last_raw_events, _pending_navigation,
                   lastResolved, consumed, nUpdates>>
    /\ Rest

\* _extract_month_range: the mutation's arguments name a month or not
_extract_month_range(task) == task.arg = "dated"

\* the reply of a mutation or of a navigate call that left nothing pending
ReplyPlain(t) ==
    /\ At(t, "text", "reply_plain")
    /\ \E ok \in BOOLEAN :
         LET task == tasks[t]
             c == task.chat
         IN  /\ out' = Message(task.kind, c, task.reply, ok, FALSE, <<>>)
             /\ IF ~ok
                THEN /\ _chat_histories' =
                           add_tool_result(_chat_histories, c, task.id, "error")
                     /\ SetTask(t, Except(task))
                ELSE /\ UNCHANGED _chat_histories
                     /\ SetTask(t,
                           IF task.fn \in _MUTATION_FUNCTIONS
                              /\ _extract_month_range(task)
                           THEN [task EXCEPT !.pc = "await_month"]
                           ELSE Idle)
    /\ UNCHANGED <<tokens, _event_context, _last_raw_events, _pending_navigation,
                   shown, lastResolved, consumed, nUpdates>>
    /\ Rest

\* _get_month_summary: a failed search gives no summary
_get_month_summary(t) ==
    /\ At(t, "text", "await_month")
    /\ \E refresh \in RefreshArgs(tokens, tasks[t].chat), listed \in ListedArgs :
         LET task == tasks[t]
             got == search_events(tokens, task.chat, refresh, listed)
         IN  /\ tokens' = got.tokens
             /\ SetTask(t, IF got.raised THEN Idle
                           ELSE [task EXCEPT !.pc = "reply_month",
                                             !.raw = got.events])
    /\ out' = NoOut
    /\ UNCHANGED <<_chat_histories, _event_context, _last_raw_events,
                   _pending_navigation, shown, lastResolved, consumed, nUpdates>>
    /\ Rest

ReplyMonth(t) ==
    /\ At(t, "text", "reply_month")
    /\ \E ok \in BOOLEAN :
         LET task == tasks[t]
             c == task.chat
         IN  /\ out' = Message(task.kind, c, "listing", ok, FALSE, task.raw)
             /\ shown' = Shown(shown, c, ok, task.raw)
             /\ IF ok
                THEN /\ _chat_histories' =
                           add_assistant_message(_chat_histories, c, "listing")
                     /\ _event_context' =
                           set_event_context(_event_context, c, task.raw)
                     /\ SetTask(t, Idle)
                ELSE /\ _chat_histories' =
                           add_tool_result(_chat_histories, c, task.id, "error")
                     /\ SetTask(t, Except(task))
                     /\ UNCHANGED _event_context
    /\ UNCHANGED <<tokens, _last_raw_events, _pending_navigation,
                   lastResolved, consumed, nUpdates>>
    /\ Rest

\* the reply of the except clause
ReplyGeneric(t) ==
    /\ At(t, "text", "reply_generic")
    /\ \E ok \in BOOLEAN :
          /\ out' = Message(tasks[t].kind, tasks[t].chat, "generic_error", ok, FALSE, <<>>)
          /\ SetTask(t, IF ok THEN Idle ELSE Escaped(tasks[t]))
    /\ UNCHANGED <<_chat_histories, tokens, _event_context, _last_raw_events,
                   _pending_navigation, shown, lastResolved, consumed, nUpdates>>
    /\ Rest

\* error_handler: its own send failure is swallowed
error_handler(t) ==
    /\ At(t, "error", "error_handler")
    /\ \E ok \in BOOLEAN :
          out' = Message(tasks[t].kind, tasks[t].chat, "handler_error", ok, FALSE, <<>>)
    /\ SetTask(t, Idle)
    /\ UNCHANGED <<_chat_histories, tokens, _event_context, _last_raw_events,
                   _pending_navigation, shown, lastResolved, consumed, nUpdates>>
    /\ Rest

LocationTask_always_directs(pending, chat_id, resolved) ==
    [kind |-> "location", chat |-> chat_id, pc |-> "cleanup",
     pending |-> pending, resolved |-> resolved]

\* handle_location after the pop: without a pending entry it only replies
LocationTask(pending, chat_id, resolved) ==
    [kind |-> "location", chat |-> chat_id,
     pc |-> IF pending = Absent THEN "reply_nothing" ELSE "cleanup",
     pending |-> pending, resolved |-> resolved]

\* pending["destination"]
Destination(pending) ==
    IF pending = Absent THEN "None" ELSE pending[1].destination

\* handle_location up to the first await: the pending entry is popped
LocationStart(t, c) ==
    /\ CanStart(t)
    /\ nUpdates' = nUpdates + 1
    /\ _pending_navigation' = PopPending(_pending_navigation, c)
    /\ SetTask(t, LocationTask(_pending_navigation[c], c, lastResolved[c]))
    /\ consumed' = IF _pending_navigation[c] = Absent THEN consumed
                   ELSE [consumed EXCEPT ![c] = TRUE]
    /\ out' = NoOut
    /\ UNCHANGED <<_chat_histories, tokens, _event_context, _last_raw_events,
                   shown, lastResolved>>
    /\ Rest

LocationNothing(t) ==
    /\ At(t, "location", "reply_nothing")
    /\ \E ok \in BOOLEAN :
          /\ out' = Message(tasks[t].kind, tasks[t].chat, "no_navigation_request", ok, FALSE, <<>>)
          /\ SetTask(t, IF ok THEN Idle ELSE Escaped(tasks[t]))
    /\ UNCHANGED <<_chat_histories, tokens, _event_context, _last_raw_events,
                   _pending_navigation, shown, lastResolved, consumed, nUpdates>>
    /\ Rest

\* the prompt and the location message are deleted; failures are ignored
LocationCleanup(t) ==
    /\ At(t, "location", "cleanup")
    /\ SetTask(t, [tasks[t] EXCEPT !.pc = "send_directions"])
    /\ out' = NoOut
    /\ UNCHANGED <<_chat_histories, tokens, _event_context, _last_raw_events,
                   _pending_navigation, shown, lastResolved, consumed, nUpdates>>
    /\ Rest

\* build_directions_url and the message that carries the URL
LocationDirections(t) ==
    /\ At(t, "location", "send_directions")
    /\ \E ok \in BOOLEAN :
          /\ out' = Message(tasks[t].kind, tasks[t].chat, "directions", ok, FALSE,
                            [dest_name |-> Destination(tasks[t].pending),
                             resolved |-> tasks[t].resolved])
          /\ SetTask(t, IF ok THEN Idle ELSE Escaped(tasks[t]))
    /\ UNCHANGED <<_chat_histories, tokens, _event_context, _last_raw_events,
                   _pending_navigation, shown, lastResolved, consumed, nUpdates>>
    /\ Rest

\* today_command up to the first await
TodayStart(t, c) ==
    /\ CanStart(t)
    /\ nUpdates' = nUpdates + 1
    /\ SetTask(t, IF ~is_authenticated(tokens, c)
                  THEN [kind |-> "today", chat |-> c, pc |-> "reply_return",
                        reply |-> "start_first", raw |-> <<>>]
                  ELSE [kind |-> "today", chat |-> c, pc |-> "await_events",
                        reply |-> "", raw |-> <<>>])
    /\ out' = NoOut
    /\ UNCHANGED <<_chat_histories, tokens, _event_context, _last_raw_events,
                   _pending_navigation, shown, lastResolved, consumed>>
    /\ Rest

TodayEvents(t) ==
    /\ At(t, "today", "await_events")
    /\ \E order \in get_all_authenticated_chat_ids(tokens),
          refresh \in RefreshMaps(tokens), listed \in ListedArgs :
         LET got == get_today_events(tokens, order, refresh, listed)
         IN  /\ tokens' = got.tokens
             /\ SetTask(t, IF got.raised
                           THEN [tasks[t] EXCEPT !.pc = "reply_error"]
                           ELSE [tasks[t] EXCEPT !.pc = "reply_today",
                                                 !.raw = got.events])
    /\ out' = NoOut
    /\ UNCHANGED <<_chat_histories, _event_context, _last_raw_events,
                   _pending_navigation, shown, lastResolved, consumed, nUpdates>>
    /\ Rest

\* the listing of /today is sent and nothing else happens
TodayReply(t) ==
    /\ At(t, "today", "reply_today")
    /\ \E ok \in BOOLEAN :
          /\ out' = Message(tasks[t].kind, tasks[t].chat, "listing", ok, FALSE, tasks[t].raw)
          /\ shown' = Shown(shown, tasks[t].chat, ok, tasks[t].raw)
          /\ SetTask(t, IF ok THEN Idle ELSE [tasks[t] EXCEPT !.pc = "reply_error"])
    /\ UNCHANGED <<_chat_histories, tokens, _event_context, _last_raw_events,
                   _pending_navigation, lastResolved, consumed, nUpdates>>
    /\ Rest

TodayError(t) ==
    /\ At(t, "today", "reply_error")
    /\ \E ok \in BOOLEAN :
          /\ out' = Message(tasks[t].kind, tasks[t].chat, "today_error", ok, FALSE, <<>>)
          /\ SetTask(t, IF ok THEN Idle ELSE Escaped(tasks[t]))
    /\ UNCHANGED <<_chat_histories, tokens, _event_context, _last_raw_events,
                   _pending_navigation, shown, lastResolved, consumed, nUpdates>>
    /\ Rest

JobRest == UNCHANGED <<appended, nCalls, calendar, lastOp, budget, maxActive, tasks,
                       _chat_histories, _event_context, _last_raw_events,
                       _pending_navigation, lastResolved, consumed>>

\* daily_report_job: the job queue starts it beside the update handlers
daily_report_job ==
    /\ job = Idle
    /\ nUpdates < budget
    /\ nUpdates' = nUpdates + 1
    /\ job' = [kind |-> "job", pc |-> "await_events"]
    /\ out' = NoOut
    /\ UNCHANGED <<tokens, shown>>
    /\ JobRest

JobEvents ==
    /\ job # Idle
    /\ job.pc = "await_events"
    /\ \E order \in get_all_authenticated_chat_ids(tokens),
          refresh \in RefreshMaps(tokens), listed \in ListedArgs :
         LET got == get_today_events(tokens, order, refresh, listed)
         IN  /\ tokens' = got.tokens
             /\ \E chat_ids \in get_all_authenticated_chat_ids(got.tokens) :
                   job' = IF got.raised \/ chat_ids = <<>> THEN Idle
                          ELSE [kind |-> "job", pc |-> "send",
                                events |-> got.events, chat_ids |-> chat_ids]
    /\ out' = NoOut
    /\ UNCHANGED <<shown, nUpdates>>
    /\ JobRest

\* one send of the loop over the authenticated chats; a failure is logged
JobSend ==
    /\ job # Idle
    /\ job.pc = "send"
    /\ \E ok \in BOOLEAN :
         LET c == Head(job.chat_ids)
         IN  /\ out' = Message("job", c, "listing", ok, FALSE, job.events)
             /\ shown' = Shown(shown, c, ok, job.events)
    /\ job' = IF Tail(job.chat_ids) = <<>> THEN Idle
              ELSE [job EXCEPT !.chat_ids = Tail(job.chat_ids)]
    /\ UNCHANGED <<tokens, nUpdates>>
    /\ JobRest

Init ==
    /\ BotIdle
    /\ budget = MaxUpdates
    /\ tokens \in InitTokens
    /\ _chat_histories = [c \in Chats |-> <<>>]
    /\ appended = _chat_histories
    /\ nCalls = 0
    /\ calendar = {}
    /\ lastOp = [op |-> "idle"]

Next ==
    \/ \E t \in 1..MaxTasks, c \in Chats :
          \/ TextStart(t, c)
          \/ LocationStart(t, c)
          \/ TodayStart(t, c)
    \/ \E t \in 1..MaxTasks :
          \/ ReplyReturn(t)
          \/ TextCompletion(t)
          \/ ExecMutation(t)
          \/ ExecQuery(t)
          \/ ExecNavigate(t)
          \/ NavigateResolved(t)
          \/ ReplyNav(t)
          \/ AwaitFilter(t)
          \/ ReplyFiltered(t)
          \/ ReplyListing(t)
          \/ ReplyPlain(t)
          \/ _get_month_summary(t)
          \/ ReplyMonth(t)
          \/ ReplyGeneric(t)
          \/ error_handler(t)
          \/ LocationNothing(t)
          \/ LocationCleanup(t)
          \/ LocationDirections(t)
          \/ TodayEvents(t)
          \/ TodayReply(t)
          \/ TodayError(t)

Spec == Init /\ [][Next]_vars

\* the completions of the navigation flow
NavCompletions ==
    {[type |-> "text_response"]}
    \cup {[type |-> "function_call", call |-> [fn |-> "navigate", arg |-> a],
           parsed |-> TRUE] : a \in {"destination", "date", "today"}}

NavCompletion(t) == Completion(t, NavCompletions)

InitNav ==
    /\ BotIdle
    /\ budget = MaxNavUpdates
    /\ tokens \in InitTokens
    /\ _chat_histories = [c \in Chats |-> <<>>]
    /\ appended = _chat_histories
    /\ nCalls = 0
    /\ calendar = {}
    /\ lastOp = [op |-> "idle"]

\* the navigation flow: messages answered with navigate, location shares
NextNav ==
    \/ \E t \in 1..MaxTasks, c \in Chats :
          \/ TextStart(t, c)
          \/ LocationStart(t, c)
    \/ \E t \in 1..MaxTasks :
          \/ ReplyReturn(t)
          \/ NavCompletion(t)
          \/ ExecNavigate(t)
          \/ NavigateResolved(t)
          \/ ReplyNav(t)
          \/ ReplyPlain(t)
          \/ ReplyGeneric(t)
          \/ error_handler(t)
          \/ LocationNothing(t)
          \/ LocationCleanup(t)
          \/ LocationDirections(t)

SpecNav == InitNav /\ [][NextNav]_vars

\* the update handlers beside the daily job
NextJob ==
    \/ Next
    \/ daily_report_job
    \/ JobEvents
    \/ JobSend

SpecJob == Init /\ [][NextJob]_vars

\* ------------------------------------------------------------------------
\* SpecParse: _safe_parse_date applied to one date string
\* ------------------------------------------------------------------------

\* the years of the date strings: a century year that is no leap year, a
\* century year that is one, a common year and a leap year
ParseYears == {1900, 2000, 2023, 2024}

\* the module state while no handler runs and no operation was called
Quiet ==
    /\ calendar = {}
    /\ tokens = [c \in Chats |-> "none"]
    /\ lastOp = [op |-> "idle"]
    /\ _chat_histories = [c \in Chats |-> <<>>]
    /\ appended = _chat_histories
    /\ nCalls = 0
    /\ BotIdle
    /\ budget = 0

InitParse == Quiet

SafeParseDate ==
    /\ lastOp.op = "idle"
    /\ \E y \in ParseYears, m \in 1..12, d \in 1..MaxDay :
          lastOp' = [op |-> "_safe_parse_date", date_str |-> Date(y, m, d),
                     raised |-> ~_safe_parse_date_ok(Date(y, m, d)),
                     result |-> _safe_parse_date(Date(y, m, d))]
    /\ UNCHANGED <<histVars, calendar, tokens, botVars>>

NextParse == SafeParseDate

SpecParse == InitParse /\ [][NextParse]_vars

\* ------------------------------------------------------------------------
\* SpecOps: one calendar_service operation on any small calendar, with
\* date strings whose day the month does not have, remote faults and every
\* state of the chat's token file
\* ------------------------------------------------------------------------

\* 2024-02-30: a day February does not have
Feb30 == Date(2024, 2, 30)

\* the date strings given to the operations
OpsDates == {D2, Feb30}

\* the id the remote gives an inserted event
NewId == 9

NoFaultAt == FaultAt("none", 200, 0)

\* faults of an operation with one list call and one write call
OpsFaults ==
    {NoFaultAt, FaultAt("list", 403, 1)}
    \cup {FaultAt("write", s, 1) : s \in {403, 404, 500, 0}}

\* faults of delete_events_by_range: the list call, or one of its deletes
BulkFaults ==
    {NoFaultAt, FaultAt("list", 404, 1)}
    \cup {FaultAt("write", s, i) : s \in {403, 404, 500}, i \in 1..MaxEvents}

\* the changes given to edit_event
OpsChanges ==
    {Changes(NoTitle, d, st, et) : d \in {NoDate, Feb30}, st \in {NoTime, T2330},
                                   et \in {NoTime, T0900}}
    \ {Changes(NoTitle, NoDate, NoTime, NoTime)}

\* the chat that calls the operation
OpsChats == {1}

InitOps ==
    /\ calendar \in {evs \in SUBSET EventPool : Cardinality(evs) <= MaxEvents}
    /\ tokens \in {[c \in Chats |-> IF c \in OpsChats THEN t ELSE "valid"] :
                      t \in TokenStates}
    /\ lastOp = [op |-> "idle"]
    /\ _chat_histories = [c \in Chats |-> <<>>]
    /\ appended = _chat_histories
    /\ nCalls = 0
    /\ BotIdle
    /\ budget = 0

\* what an operation leaves in lastOp: r is its outcome, rc the outcome of
\* the same call with every date string replaced by its clamped date
OpRecord(name, chat_id, args, fault, refresh, r, rc) ==
    [op |-> name, chat |-> chat_id, args |-> args, fault |-> fault,
     loaded |-> _load_credentials(tokens, chat_id, refresh).ret,
     before |-> calendar, tokens_before |-> tokens,
     raised |-> r.raised, result |-> r.result, calls |-> r.calls,
     http |-> r.http,
     clamped |-> [raised |-> rc.raised, result |-> rc.result, cal |-> rc.cal]]

OpAddEvent ==
    /\ lastOp.op = "idle"
    /\ \E c \in OpsChats : \E dt \in OpsDates, start_time \in {T0900, T2330},
          end_time \in {NoTime, T1000},
          fault \in OpsFaults \ {FaultAt("list", 403, 1)},
          refresh \in RefreshArgs(tokens, c) :
          LET r == add_event(calendar, tokens, c, NewId, <<"x">>, dt, start_time,
                             end_time, fault, refresh)
              rc == add_event(calendar, tokens, c, NewId, <<"x">>,
                              _safe_parse_date(dt), start_time, end_time, fault,
                              refresh)
          IN  /\ calendar' = r.cal
              /\ tokens' = r.tokens
              /\ lastOp' = OpRecord("add_event", c,
                                    [date |-> dt, start_time |-> start_time,
                                     end_time |-> end_time],
                                    fault, refresh, r, rc)
    /\ UNCHANGED <<histVars, botVars>>

OpDeleteEvent ==
    /\ lastOp.op = "idle"
    /\ \E c \in OpsChats : \E dt \in OpsDates, fault \in OpsFaults,
          refresh \in RefreshArgs(tokens, c) :
       \E events \in _find_events_by_date(calendar, _safe_parse_date(dt)) :
          LET r == delete_event(calendar, tokens, c, <<"a">>, dt, NoTime,
                                events, fault, refresh)
              rc == delete_event(calendar, tokens, c, <<"a">>,
                                 _safe_parse_date(dt), NoTime, events, fault, refresh)
          IN  /\ calendar' = r.cal
              /\ tokens' = r.tokens
              /\ lastOp' = OpRecord("delete_event", c,
                                    [date |-> dt, events |-> events],
                                    fault, refresh, r, rc)
    /\ UNCHANGED <<histVars, botVars>>

\* the changes with the date string clamped
ClampedChanges(changes) ==
    [changes EXCEPT !.date = _safe_parse_date(changes.date)]

OpEditEvent ==
    /\ lastOp.op = "idle"
    /\ \E c \in OpsChats : \E dt \in OpsDates, changes \in OpsChanges,
          fault \in OpsFaults, refresh \in RefreshArgs(tokens, c) :
       \E events \in _find_events_by_date(calendar, _safe_parse_date(dt)) :
          LET r == edit_event(calendar, tokens, c, <<"a">>, dt, changes, NoTime,
                              events, fault, refresh)
              rc == edit_event(calendar, tokens, c, <<"a">>,
                               _safe_parse_date(dt), ClampedChanges(changes),
                               NoTime, events, fault, refresh)
          IN  /\ calendar' = r.cal
              /\ tokens' = r.tokens
              /\ lastOp' = OpRecord("edit_event", c,
                                    [date |-> dt, changes |-> changes,
                                     events |-> events],
                                    fault, refresh, r, rc)
    /\ UNCHANGED <<histVars, botVars>>

OpDeleteEventsByRange ==
    /\ lastOp.op = "idle"
    /\ \E c \in OpsChats : \E date_from \in {D1, Feb30}, date_to \in OpsDates,
          keyword \in {NoTitle, <<"a">>}, fault \in BulkFaults,
          refresh \in RefreshArgs(tokens, c) :
       \E events \in ListRange(calendar, date_from, date_to, keyword) :
          LET r == delete_events_by_range(calendar, tokens, c, date_from,
                                          date_to, events, fault, refresh)
              rc == delete_events_by_range(calendar, tokens, c,
                                           _safe_parse_date(date_from),
                                           _safe_parse_date(date_to),
                                           events, fault, refresh)
          IN  /\ calendar' = r.cal
              /\ tokens' = r.tokens
              /\ lastOp' = OpRecord("delete_events_by_range", c,
                                    [date_from |-> date_from, date_to |-> date_to,
                                     keyword |-> keyword, events |-> events],
                                    fault, refresh, r, rc)
    /\ UNCHANGED <<histVars, botVars>>

\* search_events leaves the calendar alone; its result is the event list
OpSearchEvents ==
    /\ lastOp.op = "idle"
    /\ \E c \in OpsChats : \E date_from \in {D1, Feb30}, date_to \in OpsDates,
          keyword \in {NoTitle, <<"a">>},
          fault \in {NoFaultAt, FaultAt("list", 403, 1), FaultAt("list", 0, 1)},
          refresh \in RefreshArgs(tokens, c) :
       \E events \in ListRange(calendar, date_from, date_to, keyword) :
          LET r == search_events(tokens, c, refresh,
                                 _search(date_from, date_to, events, fault))
              rc == search_events(tokens, c, refresh,
                                  _search(_safe_parse_date(date_from),
                                          _safe_parse_date(date_to), events, fault))
          IN  /\ tokens' = r.tokens
              /\ lastOp' = [op |-> "search_events", chat |-> c,
                            args |-> [date_from |-> date_from, date_to |-> date_to,
                                      keyword |-> keyword, events |-> events],
                            fault |-> fault,
                            loaded |-> _load_credentials(tokens, c, refresh).ret,
                            before |-> calendar, tokens_before |-> tokens,
                            raised |-> r.raised, result |-> r.events,
                            calls |-> <<>>, http |-> 0,
                            clamped |-> [raised |-> rc.raised, result |-> rc.events,
                                         cal |-> calendar]]
    /\ UNCHANGED <<histVars, calendar, botVars>>

\* get_today_events and get_week_events
OpGetTodayEvents ==
    /\ lastOp.op = "idle"
    /\ \E order \in get_all_authenticated_chat_ids(tokens),
          refresh \in RefreshMaps(tokens), listed \in ListedArgs :
          LET r == get_today_events(tokens, order, refresh, listed)
          IN  /\ tokens' = r.tokens
              /\ lastOp' = [op |-> "get_today_events", order |-> order,
                            refresh |-> refresh, listed |-> listed,
                            tokens_before |-> tokens,
                            raised |-> r.raised, result |-> r.events]
    /\ UNCHANGED <<histVars, calendar, botVars>>

\* authenticate_user, called by auth_command and by oauth_callback
OpAuthenticateUser ==
    /\ lastOp.op = "idle"
    /\ \E c \in OpsChats : \E exchanged \in BOOLEAN, access \in AccessOutcomes :
          LET r == authenticate_user(tokens, c, exchanged, access)
          IN  /\ tokens' = r.tokens
              /\ lastOp' = [op |-> "authenticate_user", chat |-> c,
                            exchanged |-> exchanged, access |-> access,
                            tokens_before |-> tokens, saved |-> r.saved,
                            raised |-> r.raised, result |-> r.result]
    /\ UNCHANGED <<histVars, calendar, botVars>>

\* _load_credentials on its own
OpLoadCredentials ==
    /\ lastOp.op = "idle"
    /\ \E c \in OpsChats : \E refresh \in RefreshArgs(tokens, c) :
          LET r == _load_credentials(tokens, c, refresh)
          IN  /\ tokens' = r.tokens
              /\ lastOp' = [op |-> "_load_credentials", chat |-> c,
                            refresh |-> refresh, tokens_before |-> tokens,
                            ret |-> r.ret, refreshes |-> r.refreshes]
    /\ UNCHANGED <<histVars, calendar, botVars>>

NextOps ==
    \/ OpAddEvent
    \/ OpDeleteEvent
    \/ OpEditEvent
    \/ OpDeleteEventsByRange
    \/ OpSearchEvents
    \/ OpGetTodayEvents
    \/ OpAuthenticateUser
    \/ OpLoadCredentials

SpecOps == InitOps /\ [][NextOps]_vars

\* ------------------------------------------------------------------------
\* Claims
\* ------------------------------------------------------------------------

\* C1: after any sequence of add_user_message, add_assistant_tool_call,
\* add_tool_result and add_assistant_message calls, every chat's history
\* holds at most MAX_HISTORY entries and is exactly the most recently
\* appended entries of that chat, in append order.
C1_HistoryIsLastAppended ==
    \A c \in Chats :
        /\ Len(_chat_histories[c]) <= MAX_HISTORY
        /\ Len(_chat_histories[c]) =
              IF Len(appended[c]) < MAX_HISTORY THEN Len(appended[c])
              ELSE MAX_HISTORY
        /\ \A i \in 1..Len(_chat_histories[c]) :
              _chat_histories[c][i] =
                  appended[c][Len(appended[c]) - Len(_chat_histories[c]) + i]

\* C1 witness: a chat has had more than MAX_HISTORY entries appended, with
\* a tool result among the ones kept, so the oldest ones were dropped.
C1_Witness ==
    \E c \in Chats :
        /\ Len(appended[c]) > MAX_HISTORY + 1
        /\ \E i \in 1..Len(_chat_histories[c]) :
              _chat_histories[c][i].role = "tool"

\* a step of handler task t
Stepped(t) == tasks'[t] # tasks[t]

\* task t starts a handler of the given kind in this step
Starts(t, kind) == tasks[t].kind = "idle" /\ tasks'[t].kind = kind

\* the dispatcher state of one chat
ChatState(c) == <<_chat_histories[c], _event_context[c], _pending_navigation[c]>>

\* C2: when handle_text_message runs for a chat without a stored credential
\* record, every message the handler sends is the instruction to run /start,
\* the handler ends without reaching the completion request of
\* process_message, and the chat's history, event-context snapshot and
\* pending navigation are the same after each of its steps.
C2_UnauthenticatedTextOnlyPrompts ==
    [][\A t \in 1..MaxTasks, c \in Chats :
          /\ (Starts(t, "text") /\ tasks'[t].chat = c /\ tokens[c] = "none") =>
                /\ tasks'[t].pc = "reply_return"
                /\ tasks'[t].reply = "start_first"
                /\ ~tasks'[t].authed
                /\ out' = NoOut
                /\ ChatState(c)' = ChatState(c)
          /\ (tasks[t].kind = "text" /\ tasks[t].chat = c /\ ~tasks[t].authed
              /\ Stepped(t)) =>
                /\ out'.kind = "start_first"
                /\ out'.chat = c
                /\ tasks'[t].kind \in {"idle", "error"}
                /\ ChatState(c)' = ChatState(c)
      ]_vars

\* C2 witness: the /start instruction went out for a text message of a chat
\* that has a history and an event-context snapshot from earlier
C2_Witness ==
    /\ out.kind = "start_first"
    /\ out.handler = "text"
    /\ out.ok
    /\ tokens[out.chat] = "none"
    /\ _chat_histories[out.chat] # <<>>
    /\ _event_context[out.chat] # Absent

\* C3: handle_location leaves the chat without a pending request; a share
\* that follows a consuming share with no navigate storing a request in
\* between finds nothing pending, and a share that found nothing pending
\* sends the nothing-to-navigate reply and never the directions URL.
C3_PendingConsumedByOneShare ==
    [][\A t \in 1..MaxTasks :
          /\ Starts(t, "location") =>
                /\ _pending_navigation'[tasks'[t].chat] = Absent
                /\ consumed[tasks'[t].chat] => tasks'[t].pending = Absent
          /\ (tasks[t].kind = "location" /\ tasks[t].pending = Absent
              /\ consumed[tasks[t].chat] /\ Stepped(t)) =>
                /\ out'.kind = "no_navigation_request"
                /\ tasks'[t].kind \in {"idle", "error"}
      ]_vars

\* C3 witness: a second share arrives after the first one consumed the
\* request, and is about to get the nothing-to-navigate reply
C3_Witness ==
    \E t \in 1..MaxTasks :
        /\ tasks[t].kind = "location"
        /\ tasks[t].pc = "reply_nothing"
        /\ consumed[tasks[t].chat]
        /\ lastResolved[tasks[t].chat] # Absent

\* C4: a location share of a chat with no pending navigation request is
\* answered with the no-navigation-request reply, never reaches the
\* directions URL, and leaves the chat without a pending request.
C4_ShareWithoutPending ==
    [][\A t \in 1..MaxTasks :
          /\ (Starts(t, "location")
              /\ _pending_navigation[tasks'[t].chat] = Absent) =>
                /\ tasks'[t].pc = "reply_nothing"
                /\ tasks'[t].pending = Absent
                /\ _pending_navigation'[tasks'[t].chat] = Absent
          /\ (tasks[t].kind = "location" /\ tasks[t].pc = "reply_nothing"
              /\ Stepped(t)) =>
                /\ out'.kind = "no_navigation_request"
                /\ out'.chat = tasks[t].chat
                /\ tasks'[t].kind \in {"idle", "error"}
                /\ _pending_navigation'[tasks[t].chat] = Absent
      ]_vars

\* C4 witness: the no-navigation-request reply was delivered
C4_Witness ==
    /\ out.kind = "no_navigation_request"
    /\ out.ok
    /\ _pending_navigation[out.chat] = Absent

\* C5: a chat has at most one pending request, the pending request names
\* the destination a navigate operation resolved last for the chat, and
\* the directions a location share yields lead to the destination that was
\* resolved last when the share arrived.
C5_PendingIsSingleSlot ==
    /\ \A c \in Chats :
          /\ Len(_pending_navigation[c]) <= 1
          /\ _pending_navigation[c] # Absent =>
                /\ lastResolved[c] # Absent
                /\ _pending_navigation[c][1].destination =
                      lastResolved[c][1].destination
    /\ \A t \in 1..MaxTasks :
          (tasks[t].kind = "location" /\ tasks[t].pending # Absent) =>
             /\ tasks[t].resolved # Absent
             /\ tasks[t].pending[1].destination = tasks[t].resolved[1].destination
    /\ out.kind = "directions" =>
          /\ out.data.resolved # Absent
          /\ out.data.dest_name = out.data.resolved[1].destination

\* C5 witness: directions to B were sent after B replaced an unconsumed
\* request for A
C5_Witness ==
    /\ out.kind = "directions"
    /\ out.ok
    /\ out.data.dest_name = "B"
    /\ out.data.resolved # Absent
    /\ out.data.resolved[1].earlier # Absent
    /\ out.data.resolved[1].earlier[1].destination = "A"

\* C6: the event-context snapshot of every chat equals the events of the
\* most recent event listing that was sent to the chat.
C6_ContextIsLastListing ==
    \A c \in Chats : _event_context[c] = shown[c]

\* the events of a list that pass the title test / the start-time test
TitleMatches(events, title) ==
    {i \in 1..Len(events) : TitleTest(events[i], title)}
TimeMatches(events, start_time) ==
    IF start_time = NoTime THEN {}
    ELSE {i \in 1..Len(events) : TimeTest(events[i], start_time)}

\* C7: _match_event returns a title-matching event whenever one exists
\* (also when another event is the sole other candidate or starts at the
\* supplied time); an event matched by its exact HH:MM start only when no
\* title matches; the sole event of a one-element list only when neither
\* matched; and nothing otherwise.
C7_MatchPrefersTitleThenTime ==
    lastOp.op \in {"delete_event", "edit_event"} /\ lastOp.matched >= 0 =>
        LET evs == lastOp.events
            r == lastOp.matched
            byTitle == TitleMatches(evs, lastOp.title)
            byTime == TimeMatches(evs, lastOp.original_time)
        IN  /\ byTitle # {} => r \in byTitle
            /\ (byTitle = {} /\ byTime # {}) => r \in byTime
            /\ (r # 0 /\ r \notin byTitle /\ r \in byTime) => byTitle = {}
            /\ (r # 0 /\ r \notin byTitle /\ r \notin byTime) =>
                  /\ Len(evs) = 1
                  /\ byTitle = {} /\ byTime = {}
            /\ r = 0 => byTitle = {} /\ byTime = {} /\ Len(evs) # 1

\* C7 witness: two events start at the supplied time, the first listed does
\* not match the title, and the second, which does, is the one returned.
C7_Witness ==
    /\ lastOp.op \in {"delete_event", "edit_event"}
    /\ lastOp.matched = 2
    /\ TimeMatches(lastOp.events, lastOp.original_time) = {1, 2}
    /\ TitleMatches(lastOp.events, lastOp.title) = {2}

\* C8: when delete_event or edit_event matches no event on the date, it
\* returns failure with the not-found message, issues no remote delete or
\* update, and leaves the calendar as it was.
C8_NotFoundChangesNothing ==
    lastOp.op \in {"delete_event", "edit_event"} /\ lastOp.matched = 0 =>
        /\ ~lastOp.raised
        /\ lastOp.result = [success |-> FALSE, message |-> MsgNotFound]
        /\ lastOp.calls = <<>>
        /\ calendar = lastOp.before

\* C8 witness: an edit on a day with several events, none matching
C8_Witness ==
    /\ lastOp.op = "edit_event"
    /\ lastOp.matched = 0
    /\ Len(lastOp.events) >= 2
    /\ lastOp.result.message = MsgNotFound

\* days from 2023-01-01 to the first of month m of year y, and to a date
RECURSIVE DaysBeforeMonth(_, _)
DaysBeforeMonth(y, m) ==
    IF m = 1 THEN (IF y = 2023 THEN 0 ELSE DaysBeforeMonth(y - 1, 12) + 31)
    ELSE DaysBeforeMonth(y, m - 1) + monthrange(y, m - 1)
Ordinal(dt) == DaysBeforeMonth(dt.y, dt.m) + dt.d

\* minutes from 2023-01-01 00:00 to a start or end field
AbsMinutes(f) == Ordinal(f.date) * 1440 + MinuteOfDay(f)

\* a successful edit: the body it sent, and the date its new times are on
EditSucceeded == lastOp.op = "edit_event" /\ lastOp.result.success
EditBody == lastOp.calls[1].body
EditMatched == lastOp.events[lastOp.matched]
EditNewDate ==
    IF lastOp.changes.date # NoDate THEN lastOp.changes.date ELSE lastOp.date

\* C9: an edit with a new start_time and no end_time ends one hour after
\* the new start (on the new date if given, else the date of the call);
\* with an end_time, it ends at that time of the same date.
C9_EditStartTimeSetsEnd ==
    EditSucceeded /\ lastOp.changes.start_time # NoTime =>
        /\ EditBody \in calendar
        /\ EditBody.start.kind = "dateTime"
        /\ EditBody.start.date = EditNewDate
        /\ EditBody.start.h = lastOp.changes.start_time.h
        /\ EditBody.start.m = lastOp.changes.start_time.m
        /\ EditBody.end.kind = "dateTime"
        /\ lastOp.changes.end_time = NoTime =>
              AbsMinutes(EditBody.end) = AbsMinutes(EditBody.start) + 60
        /\ lastOp.changes.end_time # NoTime =>
              /\ EditBody.end.date = EditNewDate
              /\ EditBody.end.h = lastOp.changes.end_time.h
              /\ EditBody.end.m = lastOp.changes.end_time.m

\* C9 witness: a new start of 23:30 and no end time, so the end is 00:30
\* of the next day
C9_Witness ==
    /\ EditSucceeded
    /\ lastOp.changes.start_time = T2330
    /\ lastOp.changes.end_time = NoTime
    /\ EditBody.end.date = NextDay(EditNewDate)

\* C10 (as claimed): an edit whose changes hold only a new date leaves the
\* event starting and ending on the new date, at the times of day it had.
C10_DateOnlyMovesEvent ==
    (/\ EditSucceeded
     /\ lastOp.changes.date # NoDate
     /\ lastOp.changes.start_time = NoTime
     /\ lastOp.changes.end_time = NoTime) =>
        /\ EditBody.start.date = lastOp.changes.date
        /\ EditBody.end.date = lastOp.changes.date
        /\ MinuteOfDay(EditBody.start) = MinuteOfDay(EditMatched.start)
        /\ MinuteOfDay(EditBody.end) = MinuteOfDay(EditMatched.end)

\* the same for events whose start and end carry a dateTime
C10_DateOnlyMovesTimedEvent ==
    (/\ EditSucceeded
     /\ lastOp.changes.date # NoDate
     /\ lastOp.changes.start_time = NoTime
     /\ lastOp.changes.end_time = NoTime
     /\ HasDateTime(EditMatched.start) /\ HasDateTime(EditMatched.end)) =>
        /\ EditBody.start.date = lastOp.changes.date
        /\ EditBody.end.date = lastOp.changes.date
        /\ MinuteOfDay(EditBody.start) = MinuteOfDay(EditMatched.start)
        /\ MinuteOfDay(EditBody.end) = MinuteOfDay(EditMatched.end)

\* the lengths of the months of a common year
MonthLengths == <<31, 28, 31, 30, 31, 30, 31, 31, 30, 31, 30, 31>>

\* the number of days of month m of year y in the Gregorian calendar
DaysInMonth(y, m) ==
    IF m = 2 /\ y % 4 = 0 /\ (y % 100 # 0 \/ y % 400 = 0)
    THEN 29 ELSE MonthLengths[m]

\* C11: for a year, a month 1..12 and a day >= 1, _safe_parse_date returns
\* without raising the date of that year and month whose day is the smaller
\* of the day and the number of days of the month; a valid day is returned
\* unchanged; 2023-02-30 gives 2023-02-28 and 2024-02-30 gives 2024-02-29.
C11_SafeParseDateClamps ==
    lastOp.op = "_safe_parse_date" =>
        LET given == lastOp.date_str
            days == DaysInMonth(given.y, given.m)
        IN  /\ ~lastOp.raised
            /\ lastOp.result.y = given.y
            /\ lastOp.result.m = given.m
            /\ lastOp.result.d = IF given.d <= days THEN given.d ELSE days
            /\ given.d <= days => lastOp.result = given
            /\ given = Date(2023, 2, 30) => lastOp.result = Date(2023, 2, 28)
            /\ given = Date(2024, 2, 30) => lastOp.result = Date(2024, 2, 29)

\* C11 witness: a day past the end of a leap February was clamped
C11_Witness ==
    /\ lastOp.op = "_safe_parse_date"
    /\ lastOp.date_str = Date(2024, 2, 30)
    /\ lastOp.result = Date(2024, 2, 29)

\* the operations of SpecOps that take a date string
DateOps ==
    {"add_event", "delete_event", "edit_event", "search_events",
     "delete_events_by_range"}

\* C12: every calendar operation that accepts a date string treats a day
\* larger than the month's length as the last valid day of that month and
\* proceeds: its outcome is the outcome of the same call with the clamped
\* dates, never a failure caused by the date.
C12_OverlongDayIsClamped ==
    lastOp.op \in DateOps =>
        /\ lastOp.raised = lastOp.clamped.raised
        /\ lastOp.result = lastOp.clamped.result

\* C13: _load_credentials on a chat whose stored token is not valid: an
\* expired token with a refresh token is refreshed exactly once and, on
\* success, persisted and returned; when the refresh fails, or there is
\* no refresh token, the record is deleted and absence is returned; and
\* whenever absence is returned, is_authenticated is false afterwards.
C13_LoadRefreshesOrDeletes ==
    (lastOp.op = "_load_credentials"
        /\ lastOp.tokens_before[lastOp.chat] \in {"expired", "norefresh"}) =>
        LET was == lastOp.tokens_before[lastOp.chat]
        IN  /\ lastOp.refreshes = (IF was = "expired" THEN 1 ELSE 0)
            /\ (was = "expired" /\ lastOp.refresh = "ok") =>
                   (lastOp.ret = "creds" /\ tokens[lastOp.chat] = "valid")
            /\ (was = "norefresh" \/ lastOp.refresh # "ok") =>
                   (lastOp.ret = "None" /\ tokens[lastOp.chat] = "none")
            /\ lastOp.ret = "None" => ~is_authenticated(tokens, lastOp.chat)

\* C13 without the refresh that ends in an exception other than
\* RefreshError
C13_ExceptTransportError ==
    (lastOp.op = "_load_credentials" /\ lastOp.ret # "raise") =>
        C13_LoadRefreshesOrDeletes

\* C14: authenticate_user persists a credential record for the chat if and
\* only if the code exchange and the shared-calendar access check both
\* succeed; whenever it reports failure the credential store is unchanged,
\* so a chat that was unauthenticated before stays unauthenticated.
C14_PersistsOnlyAfterAccessCheck ==
    lastOp.op = "authenticate_user" =>
        /\ lastOp.saved <=> (lastOp.exchanged /\ lastOp.access = 200)
        /\ lastOp.saved =>
               (lastOp.result.success /\ is_authenticated(tokens, lastOp.chat))
        /\ ~lastOp.result.success =>
               /\ tokens = lastOp.tokens_before
               /\ (~is_authenticated(lastOp.tokens_before, lastOp.chat)
                      => ~is_authenticated(tokens, lastOp.chat))

\* an unauthenticated chat whose code was exchanged and whose access check
\* was refused: it stays unauthenticated
C14_Witness ==
    /\ lastOp.op = "authenticate_user"
    /\ lastOp.exchanged
    /\ lastOp.access = 403
    /\ ~lastOp.result.success
    /\ ~is_authenticated(lastOp.tokens_before, lastOp.chat)
    /\ ~is_authenticated(tokens, lastOp.chat)

\* task t handles a function call whose name is not in FUNCTION_REGISTRY
UnknownCall(task) ==
    task.kind = "text" /\ task.fn # "" /\ task.fn \notin FUNCTION_REGISTRY

\* C15: when the extractor returns a function call whose name is not in
\* FUNCTION_REGISTRY, handle_text_message replies with the
\* unsupported-feature message and ends; it never reaches an executor (no
\* calendar or geocoding operation), and none of its steps changes the
\* chat's event-context snapshot, its pending navigation, the token files
\* or the calendar.
C15_UnknownFunctionIsUnsupported ==
    [][\A t \in 1..MaxTasks, c \in Chats :
          /\ (At(t, "text", "await_completion") /\ tasks[t].chat = c
              /\ UnknownCall(tasks'[t])) =>
                /\ tasks'[t].pc = "reply_return"
                /\ tasks'[t].reply = "unsupported"
                /\ out' = NoOut
                /\ _event_context'[c] = _event_context[c]
                /\ _pending_navigation'[c] = _pending_navigation[c]
                /\ tokens' = tokens
                /\ calendar' = calendar
          /\ (UnknownCall(tasks[t]) /\ tasks[t].chat = c /\ Stepped(t)) =>
                /\ out'.kind = "unsupported"
                /\ out'.chat = c
                /\ tasks'[t].kind \in {"idle", "error"}
                /\ _event_context'[c] = _event_context[c]
                /\ _pending_navigation'[c] = _pending_navigation[c]
                /\ tokens' = tokens
                /\ calendar' = calendar
      ]_vars

\* C15 witness: the unsupported-feature reply went out to a chat that has
\* an event-context snapshot
C15_Witness ==
    /\ out.kind = "unsupported"
    /\ out.handler = "text"
    /\ out.ok
    /\ _event_context[out.chat] # Absent

\* the message of a (success, message) or (count, error) result
ResultMessage(r) ==
    IF "message" \in DOMAIN r THEN r.message ELSE r.error

\* the messages that tell the user the calendar cannot be accessed
NoAccessMessages == {MsgNoPermission, MsgNoAccess}

\* C16: for add_event, delete_event, edit_event, delete_events_by_range and
\* the access check of authenticate_user, a remote HTTP error with status
\* 403 or 404 yields the no-access failure message, and every other HTTP
\* error status the API-error message with that status.
C16_HttpErrorTaxonomy ==
    /\ (lastOp.op \in {"add_event", "delete_event", "edit_event",
                       "delete_events_by_range"} /\ lastOp.http # 0) =>
           IF lastOp.http \in {403, 404}
           THEN ResultMessage(lastOp.result) \in NoAccessMessages
           ELSE ResultMessage(lastOp.result) = MsgApiError(lastOp.http)
    /\ (lastOp.op = "authenticate_user" /\ lastOp.exchanged
           /\ lastOp.access \notin {0, 200}) =>
           IF lastOp.access \in {403, 404}
           THEN lastOp.result.message \in NoAccessMessages
           ELSE lastOp.result.message = MsgApiError(lastOp.access)

\* C16 for the access check alone
C16_AccessCheckTaxonomy ==
    lastOp.op = "authenticate_user" => C16_HttpErrorTaxonomy

\* C16 for every status but 404
C16_Except404 ==
    (lastOp.op # "idle" /\ lastOp.op # "authenticate_user"
        /\ "http" \in DOMAIN lastOp /\ lastOp.http # 404) =>
        C16_HttpErrorTaxonomy

\* the public operations of calendar_service
ServiceOps ==
    {"authenticate_user", "add_event", "delete_event", "edit_event",
     "delete_events_by_range", "get_today_events", "search_events"}

\* C17: no calendar-service operation lets a remote, network or parsing
\* failure escape as an exception, a failure while the credential is
\* loaded or refreshed and one in the access check included: every
\* operation ends in a result.
C17_NoFailureEscapes ==
    lastOp.op \in ServiceOps => ~lastOp.raised

\* C17 for the failures inside the operations' try blocks: with the
\* credential loaded without an exception and an access check that fails,
\* if at all, with an HttpError, nothing escapes
C17_InsideTryBlocks ==
    (/\ lastOp.op \in ServiceOps
     /\ "loaded" \in DOMAIN lastOp => lastOp.loaded # "raise"
     /\ lastOp.op = "get_today_events" =>
            \A c \in Chats : lastOp.refresh[c] # "TransportError"
     /\ lastOp.op = "authenticate_user" => lastOp.access # 0) =>
        ~lastOp.raised

\* the chats with a token file
Stored(tok) == {c \in Chats : is_authenticated(tok, c)}

\* seq names every chat of the set S exactly once
EachOnce(seq, S) ==
    /\ Len(seq) = Cardinality(S)
    /\ {seq[i] : i \in 1..Len(seq)} = S

\* C18: each run of daily_report_job attempts to send the digest exactly
\* once to every chat that has a stored credential: after the fetch the
\* job holds each such chat once in its list of chats to send to, every
\* send takes the first chat off that list, and a send that fails is
\* neither repeated nor the end of the loop.
C18_DigestOnceToEveryChat ==
    [][/\ (job # Idle /\ job.pc = "await_events" /\ job' # job) =>
             IF Stored(tokens') = {} THEN job' = Idle
             ELSE /\ job' # Idle
                  /\ job'.pc = "send"
                  /\ EachOnce(job'.chat_ids, Stored(tokens'))
       /\ (job # Idle /\ job.pc = "send" /\ job' # job) =>
             /\ out'.handler = "job"
             /\ out'.chat = Head(job.chat_ids)
             /\ tokens' = tokens
             /\ IF Tail(job.chat_ids) = <<>> THEN job' = Idle
                ELSE job'.pc = "send" /\ job'.chat_ids = Tail(job.chat_ids)
      ]_vars

\* the events the last operation removed from the calendar
Removed == lastOp.before \ calendar

\* C19: delete_events_by_range deletes every listed event of the range,
\* and the count it returns is the number of events the call removed from
\* the calendar, also when one of the delete calls fails part-way through.
C19_CountIsNumberRemoved ==
    lastOp.op = "delete_events_by_range" =>
        /\ lastOp.result.count = Cardinality(Removed)
        /\ lastOp.result.error = MsgNone =>
               /\ lastOp.args.events # <<>>
               /\ \A i \in 1..Len(lastOp.args.events) :
                      lastOp.args.events[i] \in Removed

\* C19 for the calls whose deletes all succeed or whose first delete fails
C19_WithoutPartialFailure ==
    (lastOp.op = "delete_events_by_range"
        /\ ~(lastOp.fault.at = "write" /\ lastOp.fault.index > 1)) =>
        C19_CountIsNumberRemoved

\* task t takes a step of a handler that runs for chat a
ActsFor(t, a) ==
    /\ Stepped(t)
    /\ \/ tasks[t].kind # "idle" /\ tasks[t].chat = a
       \/ tasks[t].kind = "idle" /\ tasks'[t].kind # "idle" /\ tasks'[t].chat = a

\* C20: handling a message, command, location share or query for chat A
\* never changes the per-chat state of another chat B: B's credential
\* record, conversation history, event-context snapshot and pending
\* navigation are the same before and after every step of the handler.
C20_OtherChatsUntouched ==
    [][\A t \in 1..MaxTasks, a \in Chats, b \in Chats :
          (ActsFor(t, a) /\ b # a) =>
             /\ tokens'[b] = tokens[b]
             /\ _chat_histories'[b] = _chat_histories[b]
             /\ _event_context'[b] = _event_context[b]
             /\ _pending_navigation'[b] = _pending_navigation[b]
      ]_vars

\* C20 without the credential record
C20_OtherChatsDispatcherState ==
    [][\A t \in 1..MaxTasks, a \in Chats, b \in Chats :
          (ActsFor(t, a) /\ b # a) =>
             /\ _chat_histories'[b] = _chat_histories[b]
             /\ _event_context'[b] = _event_context[b]
             /\ _last_raw_events'[b] = _last_raw_events[b]
             /\ _pending_navigation'[b] = _pending_navigation[b]
      ]_vars

\* C22: when delete_event or edit_event is called with the empty string
\* as title and an original_time, and some event of the day starts at
\* exactly that HH:MM, the event selected starts at original_time.
C22_EmptyTitleMatchesByTime ==
    (/\ lastOp.op \in {"delete_event", "edit_event"}
     /\ lastOp.matched >= 0
     /\ lastOp.title = NoTitle
     /\ TimeMatches(lastOp.events, lastOp.original_time) # {}) =>
        lastOp.matched \in TimeMatches(lastOp.events, lastOp.original_time)

\* C22 for a title that is not empty and matches no event of the day
C22_UnmatchedTitleMatchesByTime ==
    (/\ lastOp.op \in {"delete_event", "edit_event"}
     /\ lastOp.matched >= 0
     /\ TitleMatches(lastOp.events, lastOp.title) = {}
     /\ TimeMatches(lastOp.events, lastOp.original_time) # {}) =>
        lastOp.matched \in TimeMatches(lastOp.events, lastOp.original_time)

\* the event bodies the last operation sent in an insert or update call
WrittenBodies ==
    {lastOp.calls[i].body :
        i \in {j \in 1..Len(lastOp.calls) : lastOp.calls[j].verb # "delete"}}

\* C29: every event written by a successful add_event or edit_event has
\* its end strictly after its start, for any combination of date,
\* start_time and end_time.
C29_EndAfterStart ==
    (lastOp.op \in {"add_event", "edit_event"} /\ lastOp.result.success) =>
        \A body \in WrittenBodies : AbsMinutes(body.end) > AbsMinutes(body.start)

\* C29 for the calls that give no end_time: the end is the start plus one
\* hour, or the end the event had
C29_WithoutEndTime ==
    (/\ lastOp.op \in {"add_event", "edit_event"}
     /\ lastOp.op = "add_event" => lastOp.args.end_time = NoTime
     /\ lastOp.op = "edit_event" =>
           /\ lastOp.args.changes.end_time = NoTime
           /\ lastOp.args.changes.start_time # NoTime) =>
        C29_EndAfterStart

\* C30: whenever edit_event reports success for changes that hold a new
\* date, the updated event lies on the new date: its start is on that
\* date, for timed and for all-day events alike.
C30_EditedEventLiesOnNewDate ==
    (EditSucceeded /\ lastOp.changes.date # NoDate) =>
        /\ EditBody \in calendar
        /\ EditBody.start.date = lastOp.changes.date

\* C30 for the events whose start carries a dateTime, and for the edits
\* that give a start_time
C30_TimedEventLiesOnNewDate ==
    (/\ EditSucceeded
     /\ lastOp.changes.date # NoDate
     /\ HasDateTime(EditMatched.start) \/ lastOp.changes.start_time # NoTime) =>
        C30_EditedEventLiesOnNewDate

\* the entries one message writes are contiguous in a history: a tool
\* call follows a user message, a tool result follows the tool call with
\* its id (or an earlier result of that call)
Contiguous(hist) ==
    \A p \in 1..Len(hist) :
        /\ (hist[p].role = "assistant" /\ "tool_calls" \in DOMAIN hist[p]) =>
               (p > 1 /\ hist[p - 1].role = "user")
        /\ hist[p].role = "tool" =>
               /\ p > 1
               /\ \/ /\ hist[p - 1].role = "assistant"
                     /\ "tool_calls" \in DOMAIN hist[p - 1]
                     /\ hist[p - 1].tool_calls = <<hist[p].tool_call_id>>
                  \/ /\ hist[p - 1].role = "tool"
                     /\ hist[p - 1].tool_call_id = hist[p].tool_call_id

InExecutor(task) ==
    task.kind = "text" /\ task.pc \in {"executor", "await_geocode"}

\* the last entry of a history is the tool result of the call id
EndsWithResult(hist, id) ==
    /\ hist # <<>>
    /\ hist[Len(hist)].role = "tool"
    /\ hist[Len(hist)].tool_call_id = id

\* C23: for every function call whose name is registered,
\* handle_text_message appends a tool-result entry with the call's
\* tool_call_id to the chat's history when the executor is through, both
\* when the executor returned a reply and when it raised.
C23_ToolResultAfterExecutor ==
    [][\A t \in 1..MaxTasks, c \in Chats :
          /\ (InExecutor(tasks[t]) /\ tasks[t].chat = c) =>
                /\ tasks[t].fn \in FUNCTION_REGISTRY
                /\ tasks[t].id \in ToolCallIds(_chat_histories[c])
          /\ (InExecutor(tasks[t]) /\ tasks[t].chat = c /\ Stepped(t)
              /\ ~InExecutor(tasks'[t])) =>
                /\ Len(_chat_histories'[c]) = Len(_chat_histories[c]) + 1
                /\ SubSeq(_chat_histories'[c], 1, Len(_chat_histories[c]))
                      = _chat_histories[c]
                /\ EndsWithResult(_chat_histories'[c], tasks[t].id)
                /\ tasks'[t].kind = "text"
          /\ (At(t, "text", "await_completion") /\ tasks[t].chat = c
              /\ tasks'[t].kind = "text" /\ tasks'[t].fn \in FUNCTION_REGISTRY) =>
                InExecutor(tasks'[t])
      ]_vars

\* C23 witness: the executor raised and the result of its call is the
\* last entry of the history
C23_Witness ==
    \E t \in 1..MaxTasks :
        /\ At(t, "text", "reply_generic")
        /\ EndsWithResult(_chat_histories[tasks[t].chat], tasks[t].id)
        /\ _chat_histories[tasks[t].chat]
              [Len(_chat_histories[tasks[t].chat])].content = "error"
        /\ Len(_chat_histories[tasks[t].chat]) = 3

\* entry p of a history is an assistant entry with a tool call
IsToolCall(hist, p) ==
    hist[p].role = "assistant" /\ "tool_calls" \in DOMAIN hist[p]

\* every tool result is preceded by the tool call with its id
ResultsFollowCalls(hist) ==
    \A p \in 1..Len(hist) :
        hist[p].role = "tool" =>
            \E q \in 1..(p - 1) :
                IsToolCall(hist, q) /\ hist[q].tool_calls = <<hist[p].tool_call_id>>

\* every tool call is followed by a tool result with its id before the
\* next user message
CallsAnsweredBeforeUser(hist) ==
    \A p \in 1..Len(hist), u \in 1..Len(hist) :
        (IsToolCall(hist, p) /\ u > p /\ hist[u].role = "user") =>
            \E q \in (p + 1)..(u - 1) :
                hist[q].role = "tool" /\ <<hist[q].tool_call_id>> = hist[p].tool_calls

\* C25: in every reachable state each chat's history is well-formed for
\* the completion endpoint: every tool result is preceded by the tool call
\* with its id, and every tool call is followed by a tool result with its
\* id before the next user message.
C25_HistoryWellFormed ==
    \A c \in Chats :
        /\ ResultsFollowCalls(_chat_histories[c])
        /\ CallsAnsweredBeforeUser(_chat_histories[c])

\* the first half of C25, for histories below the cap
C25_ResultsFollowCalls ==
    \A c \in Chats : ResultsFollowCalls(_chat_histories[c])

\* the number of tool-result entries of a history that carry the id
ResultCount(hist, id) ==
    Cardinality({p \in 1..Len(hist) :
                    hist[p].role = "tool" /\ hist[p].tool_call_id = id})

\* C26: a history holds at most one tool-result entry for every
\* tool_call_id, also when sending the reply or a later step of the
\* handler raises after the result was recorded.
C26_OneResultPerToolCall ==
    \A c \in Chats :
        \A p \in 1..Len(_chat_histories[c]) :
            _chat_histories[c][p].role = "tool" =>
                ResultCount(_chat_histories[c],
                            _chat_histories[c][p].tool_call_id) = 1

\* C26 holds as long as no handler has entered its except clause after
\* the executor returned: the executor's own failure records one result
C26_UntilReplyFails ==
    [][\A t \in DOMAIN tasks :
          (InExecutor(tasks[t]) /\ Stepped(t) /\ ~InExecutor(tasks'[t])) =>
              ResultCount(_chat_histories'[tasks[t].chat], tasks[t].id) = 1]_vars

\* the message just sent is a reply of handle_text_message that carries
\* the share-location keyboard
SharePrompt(msg) ==
    /\ msg.kind # "none"
    /\ msg.handler = "text"
    /\ msg.keyboard
    /\ msg.ok

\* C27: the share-location prompt is issued for a navigate call only if
\* that same call resolved a destination and stored it as the chat's
\* pending request; a navigate call that fails to resolve issues no
\* prompt, also while an earlier pending request is unconsumed.
C27_PromptOnlyForResolvedCall ==
    SharePrompt(out) => out.kind = "found"

\* what the branch tests: the prompt goes out only while the chat has a
\* pending request, whichever call stored it
C27_PromptOnlyWhilePending ==
    SharePrompt(out) =>
        /\ _pending_navigation[out.chat] # Absent
        /\ _pending_navigation[out.chat][1].prompt_message_id = 1

\* the message just sent is an event listing with events in it
EventListing(msg) ==
    /\ msg.kind = "listing"
    /\ msg.ok
    /\ msg.data # <<>>

\* C24: every calendar read for a chat uses that chat's own credential:
\* an event listing (/today, get_today_events, get_week_events,
\* search_events) is returned to a chat only if that chat's own stored
\* credential is valid (or expired with a refresh token, which loading
\* refreshes).
C24_ListingOnlyWithOwnCredential ==
    EventListing(out) => tokens[out.chat] \in {"valid", "expired"}

\* what _get_any_valid_creds guarantees: the events were read with the
\* valid credential of some chat
C24_ListingWithSomeCredential ==
    EventListing(out) => \E c \in Chats : tokens[c] = "valid"

\* a navigate request of the chat is suspended in the send of its prompt,
\* between storing the pending request and recording prompt_message_id
NavigateSuspended(c) ==
    \E t \in DOMAIN tasks : At(t, "text", "reply_nav") /\ tasks[t].chat = c

\* C28 is about a location share handled while a navigate request of the
\* same chat is suspended before it records prompt_message_id.  The
\* application awaits the handler of one update before it takes the next,
\* so no handle_location runs in that window.
C28_NoShareWhileNavigateSuspended ==
    \A c \in Chats :
        NavigateSuspended(c) =>
            /\ _pending_navigation[c] # Absent
            /\ \A u \in DOMAIN tasks :
                  tasks[u].kind = "location" => tasks[u].chat # c

====
